---- MODULE Spec2Model ----
(***************************************************************************)
(* Combat simulation of Pixel-Myth-Wukong (src/components/GameCanvas.tsx,  *)
(* src/App.tsx).  One Tick step is one call of update(); Frame is one call *)
(* of the requestAnimationFrame loop, which queues the ticks it will run.  *)
(*                                                                         *)
(* Numbers.  Positions and velocities are fixed point with 100 units per   *)
(* logical pixel (0.6 is 60, 0.15 is 15); multiplications by a friction    *)
(* factor truncate toward zero.  Health is kept in units of 1/HS so that   *)
(* the spin's per-hit damage c3TotalDamage / (1 + c3ExtraHits) and the     *)
(* leaping slam's 22.5 are exact.  Time is in microseconds.                *)
(***************************************************************************)
EXTENDS Integers, Sequences, FiniteSets, TLC

VARIABLES
    gameState,   \* React state of App (src/App.tsx:8), as last set
    mounted,     \* gameState of the committed render: what update() captured
    player,      \* playerRef.current
    boss,        \* bossRef.current
    c3Hits,      \* c3HitsRef.current
    keys,        \* keysRef.current: the set of key codes that are down
    acc,         \* accumulatorRef.current (microseconds)
    stamina,     \* App's stamina state, in half points
    score,       \* App's score state
    uiPlayerHealth, \* last value passed to setPlayerHealth (units of 1/HS)
    uiBossHealth,   \* last value passed to setBossHealth (units of 1/HS)
    ev,          \* what the last update() call did (history, see NoEv)
    ticks,       \* number of update() calls so far (bounded by MaxTicks)
    keyBudget,   \* key events the player may still produce
    sinceKey,    \* update() calls since the last key event
    scenario,    \* the scenario of this run (see Scenarios)
    hist,        \* history of the current attack activation (see Track)
    timers,      \* pending setTimeout callbacks, by kind
    lorePending, \* handleStartGame awaits generateLevelLore
    levelData,   \* App's levelData state (src/App.tsx:9)
    loreCall,    \* how the last generateLevelLore call went (see LoreCause)
    frame        \* the current call of loop(): its delta, the accumulator
                 \* after the cap, the update() calls it has made so far and
                 \* the gameState it began with

vars == << gameState, mounted, player, boss, c3Hits, keys, acc, stamina, score,
           uiPlayerHealth, uiBossHealth, ev, ticks, keyBudget, sinceKey, scenario, hist,
           timers, lorePending, levelData, loreCall, frame >>

----------------------------------------------------------------------------
(* Bounds of the model *)

MaxTicks == 90

(* Program constants (src/components/GameCanvas.tsx:6-31), fixed point *)

U == 100
GRAVITY == 60
MOVE_SPEED == 120
MAX_SPEED == 500
JUMP_FORCE == -1300
GROUND_Y == 40000
ATTACK_RANGE == 9000
HEAVY_ATTACK_RANGE == 30000
DODGE_SPEED == 1800
DODGE_COOLDOWN == 40
DODGE_STAMINA_COST == 20
CHARGE_THRESHOLD == 20
COMBO_WINDOW_FRAMES == 50
ARENA_W == 120000

(* debugParamsRef defaults (src/components/GameCanvas.tsx:95-128).  The     *)
(* debug panel that edits them during play is not modelled: the parameters *)
(* keep these values.                                                      *)
c3Rotations == 2
c3Speed == 50
c3ExtraHits == 10
c3TotalDamage == 45
c3Stun == 3
c3Radius == 10000
bossBehavior == "normal"
infiniteHealth == FALSE
infinitePlayerHealth == FALSE

HS == 2 * (1 + c3ExtraHits)
H(n) == n * HS

ATTACK_DAMAGE == H(12)
COMBO_2_DAMAGE == H(18)
COMBO_4_SLAM_DAMAGE == H(45)
HEAVY_ATTACK_DAMAGE == H(60)
AIR_ATTACK_DAMAGE == H(8)
BOSS_DAMAGE == H(15)
BOSS_KOWTOW_DAMAGE == H(25)
IMMOBILIZE_BREAK_THRESHOLD == H(80)
PLAYER_MAX_HEALTH == H(100)
BOSS_MAX_HEALTH == H(1200)

PLAYER_W == 3000
PLAYER_H == 5000
BOSS_W == 8000
BOSS_H == 10000

FIXED_TIME_STEP == 16667
ACC_CAP == 100000

----------------------------------------------------------------------------
(* Arithmetic helpers *)

Abs(n) == IF n < 0 THEN -n ELSE n
Min(a, b) == IF a < b THEN a ELSE b
Max(a, b) == IF a > b THEN a ELSE b
\* faulty variant of Dec: the counter is decremented without the test
DecUnguarded(n) == n - 1

\* `if (n > 0) n--`, the form of every counter decrement (lines 708-711, 1345, 1555)
Dec(n) == IF n > 0 THEN n - 1 ELSE n

\* v * (num/den), truncated toward zero
Scale(v, num, den) == IF v >= 0 THEN (v * num) \div den ELSE -(((-v) * num) \div den)

\* Math.ceil(a / b) for positive a, b
CeilDiv(a, b) == (a + b - 1) \div b

c3TotalFrames == CeilDiv(c3Rotations * 360, c3Speed)

----------------------------------------------------------------------------
(* The world a single update() call works on.  w.p and w.b are the player  *)
(* and boss entities, w.c3 is c3HitsRef, w.st stamina (half points), w.sc  *)
(* the score, w.uiP / w.uiB the values last reported to the UI, w.gs the   *)
(* game state as set through setGameState, w.ev the record of this call.   *)

NoEv == [ earlyReturn |-> FALSE,  \* update() left through the return of line 923
          playerRan   |-> FALSE,  \* the player's logic ran (no hitstop, alive)
          trans       |-> "none", \* attack transition taken by this call
          kind        |-> "none", \* the attack step it began
          dirty       |-> FALSE,  \* hasDealtDamage or animFrame # 0 right before it
          transClean  |-> TRUE,   \* hasDealtDamage = false and animFrame = 0 right after it
          cast        |-> FALSE,  \* immobilize was cast
          castBoss    |-> "none", \* the boss right after the cast
          geo         |-> FALSE,  \* the geometric test of an active attack succeeded
          rearm       |-> FALSE,  \* the spin re-armed its dedup flag
          hit         |-> FALSE,  \* a player hit registered on the boss
          seg         |-> -1,     \* segment index of a registered spin hit
          dmg         |-> 0,      \* its damage
          bound       |-> FALSE,  \* the boss was immobilized when the hit registered
          taken       |-> 0,      \* immobilizeDamageTaken including that hit
          stun        |-> 0,      \* the hitStop the hit gave the boss
          broke       |-> FALSE,  \* the hit broke the immobilization
          bossRan     |-> FALSE,  \* boss AI and physics ran
          slam        |-> "none", \* the slam began ("start"), resolved its hit
                                  \* check ("impact") or ran out ("end")
          bossHit     |-> FALSE,  \* a boss attack connected with the player
          victory     |-> FALSE,  \* setGameState(VICTORY) was called
          gameOver    |-> FALSE,  \* setGameState(GAME_OVER) was called
          collided    |-> FALSE ] \* collision resolution found an overlap

OnGround(p) == p.y + PLAYER_H >= GROUND_Y

\* faulty variant of DecayCooldowns: the chain outlives its window
DecayCooldownsKeepsChain(p) ==
    [p EXCEPT !.attackCooldown = Dec(@), !.dodgeCooldown = Dec(@),
              !.comboWindow = Dec(@), !.spellCooldown = Dec(@)]

\* lines 708-715: cooldown decay and combo expiry
DecayCooldowns(p) ==
    LET q == [p EXCEPT !.attackCooldown = Dec(@), !.dodgeCooldown = Dec(@),
                       !.comboWindow = Dec(@), !.spellCooldown = Dec(@)]
    IN  IF q.comboWindow = 0 /\ q.state # "attack" THEN [q EXCEPT !.comboCount = 0] ELSE q

\* lines 784-826: the immobilize spell
CanCast(p, b, k) ==
    LET dist == b.x - p.x
    IN  /\ "KeyK" \in k
        /\ p.spellCooldown <= 0
        /\ ~b.isDead
        /\ (p.facingRight /\ dist > 0) \/ (~p.facingRight /\ dist < 0)
        /\ Abs(dist) < 600 * U

\* faulty variant of Immobilize: the cast also resets the boss to idle
ImmobilizeAndRetag(b) ==
    [b EXCEPT !.isImmobilized = TRUE, !.immobilizeTimer = 300,
              !.immobilizeDamageTaken = 0, !.state = "idle", !.vx = 0]

\* lines 790-792: what a successful cast does to the boss
Immobilize(b) ==
    [b EXCEPT !.isImmobilized = TRUE, !.immobilizeTimer = 300, !.immobilizeDamageTaken = 0]

SpellLogic(w, k) ==
    IF CanCast(w.p, w.b, k)
    THEN [w EXCEPT !.b = Immobilize(w.b), !.p.spellCooldown = 30,
                   !.ev.cast = TRUE, !.ev.castBoss = Immobilize(w.b)]
    ELSE w

\* lines 828-837
DodgePressed(k) == "ShiftLeft" \in k \/ "KeyL" \in k

CanDodge(p, k) ==
    DodgePressed(k) /\ p.dodgeCooldown <= 0 /\ p.state # "dodge" /\ p.state # "hit"

\* faulty variant of StartDodge: the stamina cost is not floored at 0
StartDodgeNoFloor(w) ==
    [w EXCEPT !.p.state = "dodge", !.p.animFrame = 0,
              !.p.vx = IF w.p.facingRight THEN DODGE_SPEED ELSE -DODGE_SPEED,
              !.p.dodgeCooldown = DODGE_COOLDOWN, !.p.chargeTimer = 0,
              !.st = w.st - 2 * DODGE_STAMINA_COST,
              !.ev.trans = "dodge"]

StartDodge(w) ==
    [w EXCEPT !.p.state = "dodge", !.p.animFrame = 0,
              !.p.vx = IF w.p.facingRight THEN DODGE_SPEED ELSE -DODGE_SPEED,
              !.p.dodgeCooldown = DODGE_COOLDOWN, !.p.chargeTimer = 0,
              !.st = Max(0, w.st - 2 * DODGE_STAMINA_COST),
              !.ev.trans = "dodge"]

\* lines 849-858
StartHeavy(w) ==
    [w EXCEPT !.p.state = "heavy_attack", !.p.attackCooldown = 30, !.p.animFrame = 0,
              !.p.vx = IF w.p.facingRight THEN 1200 ELSE -1200,
              !.p.comboCount = 0, !.p.hasDealtDamage = FALSE, !.p.chargeTimer = 0,
              !.st = 0, !.ev.trans = "heavy"]

\* faulty variant of FinishLight: the frame counter is not reset
FinishLightKeepsFrame(p) ==
    LET cd1 == IF p.attackCooldown = 0
               THEN (IF p.comboCount = 1 \/ p.comboCount = 2 THEN 7 ELSE 11)
               ELSE p.attackCooldown
    IN  [p EXCEPT !.attackCooldown = IF p.comboCount = 3 THEN 0 ELSE cd1]

\* lines 928-934: cooldown defaults and frame reset after a light transition
FinishLight(p) ==
    LET cd1 == IF p.attackCooldown = 0
               THEN (IF p.comboCount = 1 \/ p.comboCount = 2 THEN 7 ELSE 11)
               ELSE p.attackCooldown
        cd2 == IF p.comboCount = 3 THEN 0 ELSE cd1
    IN  [p EXCEPT !.attackCooldown = cd2, !.animFrame = 0]

\* faulty variant of NextCombo: no wrap-around after step 4
NextComboNoWrap(c) == c + 1

\* lines 876-901: grounded combo step
NextCombo(c) == IF c > 0 THEN (c % 4) + 1 ELSE 1

Lunge(c) == CASE c = 2 -> 600 [] c = 3 -> 400 [] c = 4 -> 200 [] OTHER -> 300

\* faulty variant of GroundedLight: no step lifts the player
GroundedLightNoLift(p) ==
    LET c == NextCombo(p.comboCount)
    IN  [p EXCEPT !.state = "attack", !.comboCount = c,
                  !.attackCooldown = IF c = 4 THEN 30 ELSE @,
                  !.vx = IF p.facingRight THEN Lunge(c) ELSE -Lunge(c)]

GroundedLight(p) ==
    LET c == NextCombo(p.comboCount)
    IN  [p EXCEPT !.state = "attack", !.comboCount = c,
                  !.vy = IF c = 3 THEN -550 ELSE IF c = 4 THEN -500 ELSE @,
                  !.attackCooldown = IF c = 4 THEN 30 ELSE @,
                  !.vx = IF p.facingRight THEN Lunge(c) ELSE -Lunge(c)]

\* lines 903-912: air cancel into the finisher
AirCancel(p) ==
    [p EXCEPT !.state = "attack", !.comboCount = 4, !.vy = -500, !.vx = 0,
              !.attackCooldown = 30, !.animFrame = 0, !.hasDealtDamage = FALSE]

\* lines 916-920
StartAirAttack(p) ==
    [p EXCEPT !.state = "air_attack", !.comboCount = 0, !.vy = -400, !.attackCooldown = 15]

\* lines 859-937: release of the attack key below the charge threshold
LightRelease(w, onGround) ==
    LET p == w.p
        isAlreadyAttacking == p.state \in {"attack", "heavy_attack", "air_attack"}
        isCurrentlyAirAttack == p.state = "air_attack" \/ (p.state = "attack" /\ p.comboCount = 3)
        spinInAir == ~onGround /\ isCurrentlyAirAttack /\ p.state # "air_attack"
        allowAttack == IF spinInAir THEN p.hasHitInAir ELSE TRUE
        p0 == IF spinInAir /\ p.hasHitInAir THEN [p EXCEPT !.hasHitInAir = FALSE] ELSE p
        p1 == [p0 EXCEPT !.hasDealtDamage = FALSE]
        distToGround == GROUND_Y - (p.y + PLAYER_H)
    IN  IF ~(~isAlreadyAttacking \/ allowAttack)
        THEN [w EXCEPT !.p = [p0 EXCEPT !.chargeTimer = 0]]
        ELSE IF onGround
        THEN LET q == GroundedLight(p1)
             IN  [w EXCEPT !.p = [FinishLight(q) EXCEPT !.chargeTimer = 0],
                           !.c3 = IF q.comboCount = 3 THEN 0 ELSE @,
                           !.ev.trans = "light"]
        ELSE IF p1.comboCount = 3 \/ p1.state = "air_attack"
        THEN [w EXCEPT !.p = [FinishLight(AirCancel(p1)) EXCEPT !.chargeTimer = 0],
                       !.ev.trans = "cancel4"]
        ELSE IF distToGround > 50 * U
        THEN [w EXCEPT !.p = [FinishLight(StartAirAttack(p1)) EXCEPT !.chargeTimer = 0],
                       !.ev.trans = "air"]
        ELSE [w EXCEPT !.p = [p1 EXCEPT !.chargeTimer = 0], !.ev.earlyReturn = TRUE]

\* lines 828-941: dodge, charge and attack input
InputLogic(w, k, onGround) ==
    LET p == w.p
    IN  IF CanDodge(p, k) THEN StartDodge(w)
        ELSE IF p.state # "dodge" /\ p.state # "hit"
        THEN IF "KeyJ" \in k
             THEN IF p.state # "attack" /\ p.state # "heavy_attack"
                  THEN [w EXCEPT !.p.chargeTimer = @ + 1]
                  ELSE w
             ELSE IF p.chargeTimer > 0
             THEN IF p.chargeTimer > CHARGE_THRESHOLD THEN StartHeavy(w)
                  ELSE LightRelease(w, onGround)
             ELSE w
        ELSE IF "KeyJ" \notin k THEN [w EXCEPT !.p.chargeTimer = 0] ELSE w

\* lines 943-971: horizontal movement; isFinisher and movementLocked are those of line 944
IsFinisher(p) == p.state = "attack" /\ p.comboCount = 4
MovementLocked(p) == p.state = "dodge" \/ p.state = "heavy_attack" \/ IsFinisher(p)

Clamp(v, lo, hi) == Max(lo, Min(v, hi))

Movement(p, k) ==
    IF ~MovementLocked(p)
    THEN IF p.state = "attack" /\ p.comboCount # 3 /\ p.animFrame < 2
         THEN p
         ELSE IF "ArrowRight" \in k \/ "KeyD" \in k
         THEN [p EXCEPT !.vx = Clamp(@ + MOVE_SPEED, -MAX_SPEED, MAX_SPEED), !.facingRight = TRUE]
         ELSE IF "ArrowLeft" \in k \/ "KeyA" \in k
         THEN [p EXCEPT !.vx = Clamp(@ - MOVE_SPEED, -MAX_SPEED, MAX_SPEED), !.facingRight = FALSE]
         ELSE [p EXCEPT !.vx = Clamp(Scale(@, 80, 100), -MAX_SPEED, MAX_SPEED)]
    ELSE IF p.state = "dodge"
    THEN IF Abs(p.vx) < 1 * U THEN [p EXCEPT !.state = "idle"] ELSE p
    ELSE IF p.state = "heavy_attack"
    THEN [p EXCEPT !.vx = Scale(@, 85, 100)]
    ELSE [p EXCEPT !.vx = Scale(@, 90, 100)]

\* lines 973-994: jump, gravity, integration, ground and arena clamps.
\* locked and finisher are the values computed at line 944-945, before Movement.
Physics(p, k, onGround, locked) ==
    LET p1 == IF "Space" \in k /\ onGround /\ ~locked /\ p.state # "attack"
              THEN [p EXCEPT !.vy = JUMP_FORCE] ELSE p
        floaty == p1.state = "air_attack" \/ (p1.state = "attack" /\ p1.comboCount = 3)
        vy2 == p1.vy + (IF floaty THEN GRAVITY \div 4 ELSE GRAVITY)
        x2 == p1.x + p1.vx
        y2 == p1.y + vy2
        landed == y2 + PLAYER_H > GROUND_Y
    IN  [p1 EXCEPT !.x = Clamp(x2, 0, ARENA_W),
                   !.y = IF landed THEN GROUND_Y - PLAYER_H ELSE y2,
                   !.vy = IF landed THEN 0 ELSE vy2,
                   !.hasHitInAir = IF landed THEN FALSE ELSE @]

----------------------------------------------------------------------------
(* Combat resolution, lines 996-1265 *)

IsAttacking(p) == p.state \in {"attack", "heavy_attack", "air_attack"}

\* faulty variant of ActiveFrames: an attack is live from its first frame to
\* its last
ActiveFramesWholeAttack(p) == TRUE

\* lines 1005-1014
ActiveFrames(p) ==
    IF p.state = "heavy_attack" THEN p.animFrame >= 2 /\ p.animFrame <= 6
    ELSE IF p.state = "attack"
    THEN IF p.comboCount = 1 \/ p.comboCount = 2 THEN p.animFrame = 1 \/ p.animFrame = 2
         ELSE IF p.comboCount = 3 THEN p.animFrame <= c3TotalFrames
         ELSE IF p.comboCount = 4 THEN p.animFrame >= 5 /\ p.animFrame <= 10
         ELSE FALSE
    ELSE p.state = "air_attack"

IsAir(p) == p.state = "air_attack" \/ (p.state = "attack" /\ p.comboCount = 3)
IsMultiHit(p) == IsAir(p)
IsSpin(p) == p.state = "attack" /\ p.comboCount = 3

\* lines 1017-1051
AttackRange(p) ==
    IF p.state = "heavy_attack" THEN HEAVY_ATTACK_RANGE
    ELSE IF IsSpin(p) THEN c3Radius
    ELSE IF IsAir(p) THEN (ATTACK_RANGE * 3) \div 2
    ELSE IF p.comboCount = 4 THEN ATTACK_RANGE * 2
    ELSE IF p.comboCount = 2 THEN (ATTACK_RANGE * 6) \div 5
    ELSE ATTACK_RANGE

AttackDamage(p) ==
    IF p.state = "heavy_attack" THEN HEAVY_ATTACK_DAMAGE
    ELSE IF IsSpin(p) THEN H(c3TotalDamage) \div (1 + c3ExtraHits)
    ELSE IF IsAir(p) THEN AIR_ATTACK_DAMAGE
    ELSE IF p.comboCount = 4 THEN COMBO_4_SLAM_DAMAGE
    ELSE IF p.comboCount = 2 THEN COMBO_2_DAMAGE
    ELSE ATTACK_DAMAGE

\* line 1034-1035: floor(animFrame / (c3TotalFrames / totalHits))
CurrentHitIndex(animFrame) == (animFrame * (1 + c3ExtraHits)) \div c3TotalFrames

\* lines 53-61 and 1056-1087: the points the staff sweeps through between
\* t - 1 and t (six interpolation steps, radii 40, 80, 120, 150), as offsets
\* from the pivot for a player facing right; t = animFrame + animTimer.
Combo4Points(t) ==
    CASE t <= 5 -> {<<-3205,-2394>>, <<-6409,-4788>>, <<-9614,-7182>>, <<-12017,-8977>>}
      [] t = 6 -> {<<-3205,-2394>>, <<-6409,-4788>>, <<-9614,-7182>>, <<-12017,-8977>>,
                   <<-3204,-2394>>, <<-6408,-4789>>, <<-9613,-7183>>, <<-12016,-8979>>,
                   <<-3202,-2398>>, <<-6403,-4796>>, <<-9605,-7194>>, <<-12006,-8992>>,
                   <<-3194,-2408>>, <<-6389,-4815>>, <<-9583,-7223>>, <<-11978,-9029>>,
                   <<-3180,-2426>>, <<-6360,-4853>>, <<-9540,-7279>>, <<-11925,-9099>>,
                   <<-3156,-2457>>, <<-6313,-4914>>, <<-9469,-7372>>, <<-11836,-9215>>,
                   <<-3120,-2503>>, <<-6241,-5005>>, <<-9361,-7508>>, <<-11701,-9385>>}
      [] t = 7 -> {<<-3120,-2503>>, <<-6241,-5005>>, <<-9361,-7508>>, <<-11701,-9385>>,
                   <<-3069,-2565>>, <<-6138,-5131>>, <<-9207,-7696>>, <<-11509,-9620>>,
                   <<-2999,-2647>>, <<-5998,-5294>>, <<-8997,-7941>>, <<-11246,-9926>>,
                   <<-2906,-2749>>, <<-5811,-5498>>, <<-8717,-8247>>, <<-10896,-10309>>,
                   <<-2784,-2872>>, <<-5569,-5744>>, <<-8353,-8615>>, <<-10441,-10769>>,
                   <<-2629,-3015>>, <<-5258,-6029>>, <<-7888,-9044>>, <<-9859,-11304>>,
                   <<-2433,-3175>>, <<-4867,-6349>>, <<-7300,-9524>>, <<-9126,-11905>>}
      [] t = 8 -> {<<-2433,-3175>>, <<-4867,-6349>>, <<-7300,-9524>>, <<-9126,-11905>>,
                   <<-2190,-3347>>, <<-4380,-6695>>, <<-6569,-10042>>, <<-8212,-12553>>,
                   <<-1890,-3525>>, <<-3781,-7050>>, <<-5671,-10576>>, <<-7088,-13219>>,
                   <<-1527,-3697>>, <<-3054,-7394>>, <<-4581,-11091>>, <<-5726,-13864>>,
                   <<-1093,-3848>>, <<-2187,-7695>>, <<-3280,-11543>>, <<-4100,-14429>>,
                   <<-585,-3957>>, <<-1170,-7914>>, <<-1755,-11871>>, <<-2194,-14839>>,
                   <<-2,-4000>>, <<-3,-8000>>, <<-5,-12000>>, <<-6,-15000>>}
      [] t = 9 -> {<<-2,-4000>>, <<-3,-8000>>, <<-5,-12000>>, <<-6,-15000>>,
                   <<650,-3947>>, <<1299,-7894>>, <<1949,-11841>>, <<2436,-14801>>,
                   <<1352,-3764>>, <<2705,-7529>>, <<4057,-11293>>, <<5071,-14117>>,
                   <<2076,-3419>>, <<4152,-6838>>, <<6228,-10257>>, <<7785,-12821>>,
                   <<2775,-2881>>, <<5549,-5762>>, <<8324,-8643>>, <<10405,-10804>>,
                   <<3384,-2133>>, <<6768,-4265>>, <<10152,-6398>>, <<12691,-7997>>,
                   <<3823,-1176>>, <<7646,-2352>>, <<11470,-3528>>, <<14337,-4410>>}
      [] t = 10 -> {<<3823,-1176>>, <<7646,-2352>>, <<11470,-3528>>, <<14337,-4410>>,
                    <<4000,-46>>, <<7999,-93>>, <<11999,-139>>, <<14999,-174>>,
                    <<3822,1179>>, <<7645,2358>>, <<11467,3536>>, <<14334,4420>>,
                    <<3221,2372>>, <<6442,4743>>, <<9663,7115>>, <<12079,8894>>,
                    <<2174,3357>>, <<4349,6715>>, <<6523,10072>>, <<8154,12590>>,
                    <<742,3931>>, <<1484,7861>>, <<2226,11792>>, <<2783,14740>>,
                    <<-909,3895>>, <<-1818,7791>>, <<-2726,11686>>, <<-3408,14608>>}
      [] OTHER -> {<<-909,3895>>, <<-1818,7791>>, <<-2726,11686>>, <<-3408,14608>>}

\* lines 1056-1087
SweepHit(p, b) ==
    LET pivotX == p.x + PLAYER_W \div 2
        pivotY == p.y + PLAYER_H - 35 * U
        dir == IF p.facingRight THEN 1 ELSE -1
    IN  \E pt \in Combo4Points(p.animFrame + p.animTimer) :
            LET px == pivotX + pt[1] * dir
                py == pivotY + pt[2]
            IN  px >= b.x /\ px <= b.x + BOSS_W /\ py >= b.y /\ py <= b.y + BOSS_H

\* lines 1095-1100: radial check of the spin and the air attack
RadialHit(p, b) ==
    LET dx == (p.x + PLAYER_W \div 2) - (b.x + BOSS_W \div 2)
        dy == (p.y + PLAYER_H \div 2) - (b.y + BOSS_H \div 2)
        r == AttackRange(p) + Min(BOSS_W, BOSS_H) \div 2
    IN  dx * dx + dy * dy < r * r

\* lines 1102-1127: attack box of the light steps and the heavy attack
BoxHit(p, b) ==
    LET range == AttackRange(p)
        heavy == p.state = "heavy_attack"
        boxX == IF heavy
                THEN (IF p.facingRight THEN p.x - 40 * U ELSE p.x - range)
                ELSE (IF p.facingRight THEN p.x + PLAYER_W ELSE p.x - range)
        boxW == IF heavy THEN range + PLAYER_W + 40 * U ELSE range
        boxH == IF heavy THEN PLAYER_H + 250 * U ELSE PLAYER_H
    IN  /\ boxX < b.x + BOSS_W
        /\ boxX + boxW > b.x
        /\ p.y < b.y + BOSS_H
        /\ p.y + boxH > b.y

GeometricHit(p, b) ==
    IF IsFinisher(p) THEN SweepHit(p, b)
    ELSE IF IsAir(p) THEN RadialHit(p, b)
    ELSE BoxHit(p, b)

\* faulty variant of RearmSpin: the flag is re-armed whatever the segment index
RearmSpinEveryTick(w) ==
    IF IsSpin(w.p)
    THEN [w EXCEPT !.p.hasDealtDamage = FALSE, !.c3 = CurrentHitIndex(w.p.animFrame),
                   !.ev.rearm = TRUE]
    ELSE w

\* lines 1032-1040: the spin re-arms its dedup flag when the segment index grows
RearmSpin(w) ==
    IF IsSpin(w.p) /\ CurrentHitIndex(w.p.animFrame) > w.c3
    THEN [w EXCEPT !.p.hasDealtDamage = FALSE, !.c3 = CurrentHitIndex(w.p.animFrame),
                   !.ev.rearm = TRUE]
    ELSE w

\* faulty variant of ShouldRegisterHit: the dedup flag is ignored
RegistersEveryOverlap(p) == TRUE

\* lines 1136-1147
ShouldRegisterHit(p) == ~p.hasDealtDamage

\* lines 1149-1154
DamageBoss(health, damage) ==
    IF infiniteHealth /\ health - damage <= 0 THEN BOSS_MAX_HEALTH ELSE health - damage

\* faulty variant of StopDuration: a freeze of one tick, which the boss's
\* decrement of the same tick uses up
StopDurationOneTick(p) == 1

\* lines 1208-1231
StopDuration(p) ==
    IF p.state = "heavy_attack" THEN 15
    ELSE IF p.comboCount = 4 THEN 12
    ELSE IF IsMultiHit(p) THEN (IF p.comboCount = 3 THEN c3Stun ELSE 8)
    ELSE IF p.comboCount = 1 \/ p.comboCount = 2 THEN 4
    ELSE 10

\* lines 1185-1189
BreakStun(p) ==
    LET isHeavyHit == p.state = "heavy_attack" \/ p.comboCount = 4
        stopDuration == IF isHeavyHit THEN 15 ELSE IF IsMultiHit(p) THEN 8 ELSE 10
    IN  Max(stopDuration, 18)

\* lines 1202-1206
KnockForce(p) ==
    IF p.state = "heavy_attack" THEN 1200 ELSE IF p.comboCount = 4 THEN 800 ELSE 0

\* faulty variant of Breaks: the accumulated damage never breaks the spell
BreaksNever(taken) == FALSE

\* line 1161
Breaks(taken) == taken > IMMOBILIZE_BREAK_THRESHOLD

\* faulty variant of MutedReaction: the boss is knocked back and staggered
MutedWithKnockback(b, taken, facingRight) ==
    [b EXCEPT !.immobilizeDamageTaken = taken, !.hitStop = 3, !.state = "hit",
              !.vx = IF facingRight THEN 800 ELSE -800]

\* lines 1158 and 1192-1199: a hit that leaves the spell in place
MutedReaction(b, taken, facingRight) ==
    [b EXCEPT !.immobilizeDamageTaken = taken, !.hitStop = 3]

\* lines 1147-1262: a registered hit
RegisterHit(w) ==
    LET p == w.p
        b == w.b
        damage == AttackDamage(p)
        b1 == [b EXCEPT !.health = DamageBoss(@, damage)]
        taken == b.immobilizeDamageTaken + damage
        breaks == b.isImmobilized /\ Breaks(taken)
        b2 == IF b.isImmobilized
              THEN IF breaks
                   THEN [b1 EXCEPT !.isImmobilized = FALSE, !.immobilizeDamageTaken = 0,
                                   !.immobilizeTimer = 0, !.state = "hit", !.animFrame = 0,
                                   !.vx = IF p.facingRight THEN 800 ELSE -800,
                                   !.hitStop = BreakStun(p)]
                   ELSE MutedReaction(b1, taken, p.facingRight)
              ELSE LET stagger == p.state = "heavy_attack" \/ p.comboCount = 4
                   IN  [b1 EXCEPT !.vx = IF p.facingRight THEN KnockForce(p) ELSE -KnockForce(p),
                                  !.state = IF stagger THEN "hit" ELSE @,
                                  !.animTimer = IF stagger THEN 0 ELSE @,
                                  !.hitStop = StopDuration(p)]
        stop == IF b.isImmobilized THEN (IF breaks THEN BreakStun(p) ELSE 3)
                ELSE StopDuration(p)
        p2 == [p EXCEPT !.hitStop = stop,
                        !.attackCooldown = IF IsMultiHit(p)
                                           THEN (IF p.comboCount = 3 THEN 11 ELSE 18) ELSE @,
                        !.hasDealtDamage = TRUE]
    IN  [w EXCEPT !.p = p2, !.b = b2, !.uiB = b2.health,
                  !.sc = @ + damage \div HS,
                  !.ev.hit = TRUE, !.ev.dmg = damage, !.ev.broke = breaks,
                  !.ev.bound = b.isImmobilized,
                  !.ev.taken = IF b.isImmobilized THEN taken ELSE 0,
                  !.ev.stun = b2.hitStop,
                  !.ev.seg = IF IsSpin(p) THEN CurrentHitIndex(p.animFrame) ELSE -1]

\* lines 1016-1265
CombatResolution(w) ==
    IF IsAttacking(w.p) /\ ActiveFrames(w.p) /\ ~w.b.isDead
    THEN LET w1 == RearmSpin(w)
         IN  IF GeometricHit(w1.p, w1.b)
             THEN LET w2 == [w1 EXCEPT !.p.hasHitInAir = IF IsAir(w1.p) THEN TRUE ELSE @,
                                       !.ev.geo = TRUE]
                  IN  IF ShouldRegisterHit(w2.p) THEN RegisterHit(w2) ELSE w2
             ELSE w1
    ELSE w

\* lines 1267-1319: state cleanup.  isAttacking is the value of line 996 and
\* isFinisher that of line 944, both taken before the hit was resolved.
StateCleanup(p, onGround, isAttacking, isFinisher) ==
    LET p0 == [p EXCEPT !.animTimer = @ + 1]
        p1 == IF p0.state = "hit"
              THEN (IF p0.animFrame > 3 THEN [p0 EXCEPT !.state = "idle", !.animFrame = 0] ELSE p0)
              ELSE IF p0.state = "dodge" /\ p0.animFrame >= 4
              THEN [p0 EXCEPT !.state = "idle"]
              ELSE IF p0.state = "heavy_attack" /\ p0.animFrame >= 8
              THEN [p0 EXCEPT !.state = "idle"]
              ELSE IF /\ isAttacking /\ p0.attackCooldown <= 0 /\ ~isFinisher
                      /\ p0.state # "heavy_attack" /\ p0.state # "air_attack"
                      /\ p0.comboCount # 3
              THEN [p0 EXCEPT !.state = "idle", !.comboWindow = COMBO_WINDOW_FRAMES]
              ELSE IF p0.state # "dodge" /\ ~isAttacking
              THEN [p0 EXCEPT !.state = IF ~onGround THEN (IF p0.vy > 0 THEN "fall" ELSE "jump")
                                        ELSE IF Abs(p0.vx) > 10 THEN "run" ELSE "idle"]
              ELSE p0
        spinning == p1.state = "air_attack" \/ (p1.state = "attack" /\ p1.comboCount = 3)
        limit == IF p1.comboCount = 3 THEN c3TotalFrames ELSE 18
        p2 == IF spinning /\ p1.animFrame > limit
              THEN IF p1.comboCount = 3
                   THEN [p1 EXCEPT !.state = "attack", !.comboCount = 4, !.vy = -500, !.vx = 0,
                                   !.attackCooldown = 30, !.animFrame = 0, !.animTimer = 0,
                                   !.hasDealtDamage = FALSE]
                   ELSE [p1 EXCEPT !.state = "idle", !.comboWindow = COMBO_WINDOW_FRAMES]
              ELSE p1
    IN  IF isFinisher /\ p2.animFrame >= 20
        THEN [p2 EXCEPT !.state = "idle", !.comboWindow = COMBO_WINDOW_FRAMES]
        ELSE p2

\* the automatic step 3 -> step 4 transition of lines 1299-1309 was taken
AutoFinisher(before, after) ==
    before.state = "attack" /\ before.comboCount = 3 /\ after.comboCount = 4

\* lines 1321-1336
AnimSpeed(p) ==
    IF p.state = "air_attack" THEN 2
    ELSE IF p.state = "hit" THEN 10
    ELSE IF p.state = "dodge" THEN 3
    ELSE IF p.state = "heavy_attack" THEN 2
    ELSE IF p.state = "attack" THEN (IF p.comboCount = 3 \/ p.comboCount = 4 THEN 1 ELSE 3)
    ELSE IF p.state = "run" THEN 5
    ELSE 8

\* faulty variant of Animate: the frame counter stands still
AnimateStalls(p) == p

Animate(p) ==
    IF p.animTimer > AnimSpeed(p) THEN [p EXCEPT !.animFrame = @ + 1, !.animTimer = 0] ELSE p

\* lines 1338-1340, stamina in half points
RegenStamina(st, p) == IF p.dodgeCooldown < 30 THEN Min(200, st + 1) ELSE st

\* the attack step a player in an attack state is performing
StepKind(p) ==
    IF p.state = "heavy_attack" THEN "heavy"
    ELSE IF p.state = "air_attack" THEN "air"
    ELSE CASE p.comboCount = 1 -> "c1" [] p.comboCount = 2 -> "c2"
           [] p.comboCount = 3 -> "c3" [] p.comboCount = 4 -> "c4" [] OTHER -> "other"

\* faulty variant of PlayerSkips: the dead player is not gated
PlayerNeverSkips(p) == FALSE

\* line 706: a dead player runs no logic
PlayerSkips(p) == p.isDead

\* lines 703-1341: the player's part of update()
PlayerStep(w, k) ==
    IF w.p.hitStop > 0 THEN [w EXCEPT !.p.hitStop = @ - 1]
    ELSE IF PlayerSkips(w.p) THEN w
    ELSE
    LET onGround == OnGround(w.p)
        w1 == SpellLogic([w EXCEPT !.p = DecayCooldowns(@), !.ev.playerRan = TRUE], k)
        w2 == InputLogic(w1, k, onGround)
    IN  IF w2.ev.earlyReturn THEN w2
        ELSE
        LET locked == MovementLocked(w2.p)
            isFinisher == IsFinisher(w2.p)
            p3 == Physics(Movement(w2.p, k), k, onGround, locked)
            isAttacking == IsAttacking(p3)
            w4 == CombatResolution([w2 EXCEPT !.p = p3])
            p5 == StateCleanup(w4.p, onGround, isAttacking, isFinisher)
            auto == AutoFinisher(w4.p, p5)
            p6 == Animate(p5)
            started == w2.ev.trans \in {"heavy", "light", "cancel4", "air"}
        IN  [w4 EXCEPT !.p = p6,
                       !.st = RegenStamina(@, p6),
                       !.ev.trans = IF auto THEN "auto4" ELSE @,
                       !.ev.kind = IF auto THEN "c4"
                                   ELSE IF started THEN StepKind(w2.p) ELSE "none",
                       !.ev.dirty = IF auto THEN w4.p.hasDealtDamage \/ w4.p.animFrame # 0
                                    ELSE IF started
                                    THEN w1.p.hasDealtDamage \/ w1.p.animFrame # 0
                                    ELSE FALSE,
                       !.ev.transClean =
                           IF auto THEN ~p5.hasDealtDamage /\ p5.animFrame = 0
                           ELSE IF started THEN ~w2.p.hasDealtDamage /\ w2.p.animFrame = 0
                           ELSE TRUE]

----------------------------------------------------------------------------
(* Boss logic, lines 1344-1577 *)

\* lines 1350-1368: debug behaviour override
DebugOverride(b) ==
    IF bossBehavior = "idle"
    THEN [b EXCEPT !.state = "idle", !.vx = IF b.state # "idle" THEN 0 ELSE @,
                   !.attackCooldown = 60]
    ELSE IF bossBehavior = "kowtow" /\ b.state # "kowtow_attack"
    THEN [b EXCEPT !.state = "kowtow_attack", !.animFrame = 0, !.animTimer = 0, !.vx = 0]
    ELSE b

\* lines 1448-1465 and 1500-1518: a boss attack connects with the player
HurtPlayer(w, damage, stop, pvx, pvy) ==
    LET h == IF infinitePlayerHealth /\ w.p.health - damage <= 0
             THEN PLAYER_MAX_HEALTH ELSE w.p.health - damage
        dead == h <= 0
    IN  [w EXCEPT !.p.health = h, !.p.state = "hit", !.p.hitStop = stop,
                  !.p.vx = pvx, !.p.vy = pvy,
                  !.p.isDead = IF dead THEN TRUE ELSE @,
                  !.uiP = h,
                  !.gs = IF dead THEN "GAME_OVER" ELSE @,
                  !.ev.bossHit = TRUE,
                  !.ev.gameOver = dead]

\* faulty variant of Vulnerable: a dodging player can be hit
VulnerableInDodge(p) == TRUE

\* lines 1448 and 1500: a boss attack passes through a dodging player
Vulnerable(p) == p.state # "dodge"

\* faulty variant of ImpactFrame: the whole of frame 4 is the impact
ImpactWholeFrame(b) == b.animFrame = 4

\* lines 1407-1409: IMPACT_FRAME
ImpactFrame(b) == b.animFrame = 4 /\ b.animTimer = 0

\* line 1414: where the boss's head comes down
HeadX(b) == IF b.facingRight THEN b.x + BOSS_W + 40 * U ELSE b.x - 40 * U

\* lines 1444-1448: the player is inside the shockwave
InShockwave(p, b) ==
    LET dist == Abs((p.x + PLAYER_W \div 2) - HeadX(b))
        vertDist == Abs((p.y + PLAYER_H) - GROUND_Y)
    IN  dist < 150 * U /\ vertDist < 40 * U

\* lines 1402-1475: the scripted slam
KowtowStep(w) ==
    LET b == w.b
        p == w.p
        b1 == [b EXCEPT !.vx = IF Abs(@) > 10 THEN Scale(@, 80, 100) ELSE 0]
        impact == ImpactFrame(b)
        connects == impact /\ InShockwave(p, b) /\ Vulnerable(p)
        w1 == IF connects
              THEN HurtPlayer(w, BOSS_KOWTOW_DAMAGE, 15,
                              IF b.facingRight THEN 800 ELSE -800, -1000)
              ELSE w
        ends == b1.animFrame > 12
        b2 == IF ends
              THEN [b1 EXCEPT !.state = "idle", !.animFrame = 0,
                              !.attackCooldown = IF bossBehavior = "kowtow" THEN 0 ELSE 60]
              ELSE b1
    IN  [w1 EXCEPT !.b = b2,
                   !.ev.slam = IF impact THEN "impact" ELSE IF ends THEN "end" ELSE @]

\* lines 1495-1521: landing of the leaping slam
SmashLanding(w, distance) ==
    LET b == w.b
        p == w.p
    IN  IF b.y + BOSS_H >= GROUND_Y
        THEN LET connects == /\ distance < 150 * U
                             /\ p.y + PLAYER_H >= GROUND_Y - 20 * U
                             /\ Vulnerable(p)
                 w1 == IF connects
                       THEN [HurtPlayer(w, (BOSS_DAMAGE * 3) \div 2, 12,
                                        IF b.facingRight THEN 1500 ELSE -1500, -500)
                             EXCEPT !.b.hitStop = 8]
                       ELSE w
             IN  [w1 EXCEPT !.b.state = "attack", !.tm.bossIdle = @ + 1]
        ELSE w

\* lines 1476-1546: distance heuristics (only with bossBehavior normal)
Positioning(w, r, distance) ==
    LET b == w.b
        PREFERRED_DISTANCE == 220 * U
        b1 == IF /\ b.state = "run" /\ distance < 250 * U /\ distance > 100 * U
                 /\ r.smash /\ b.attackCooldown <= 0
              THEN [b EXCEPT !.state = "jump_smash", !.vy = -1500,
                             !.vx = IF b.facingRight THEN 800 ELSE -800,
                             !.attackCooldown = 150]
              ELSE IF b.state = "run"
              THEN LET c == IF distance < 350 * U /\ distance > 200 * U /\ r.standoff
                            THEN [b EXCEPT !.state = "standoff", !.animTimer = 0] ELSE b
                   IN  IF distance < PREFERRED_DISTANCE THEN [c EXCEPT !.state = "standoff"] ELSE c
              ELSE b
        diff == distance - PREFERRED_DISTANCE
        tolerance == 30 * U
    IN  IF b1.state = "jump_smash" THEN SmashLanding([w EXCEPT !.b = b1], distance)
        ELSE IF b1.state = "standoff"
        THEN IF diff < -tolerance
             THEN [w EXCEPT !.b = [b1 EXCEPT !.vx = IF b1.facingRight THEN -150 ELSE 150,
                                             !.state = "run"]]
             ELSE IF diff > tolerance
             THEN [w EXCEPT !.b = [b1 EXCEPT !.vx = IF b1.facingRight THEN 100 ELSE -100,
                                             !.state = "run"]]
             ELSE [w EXCEPT !.b = [b1 EXCEPT !.vx = 0,
                                             !.state = IF r.idle THEN "idle" ELSE @]]
        ELSE IF b1.state # "attack"
        THEN IF distance > 350 * U
             THEN [w EXCEPT !.b = [b1 EXCEPT
                       !.vx = Clamp(@ + (IF b1.facingRight THEN 20 ELSE -20), -200, 200),
                       !.state = "run"]]
             ELSE [w EXCEPT !.b = [b1 EXCEPT !.state = "standoff"]]
        ELSE [w EXCEPT !.b = b1]

\* lines 1547-1553
HitRecovery(b) ==
    LET b1 == [b EXCEPT !.vx = Scale(@, 90, 100)]
        b2 == IF Abs(b1.vx) < 10 THEN [b1 EXCEPT !.state = "idle"] ELSE b1
    IN  IF b2.state = "hit" /\ b2.animTimer > 20 THEN [b2 EXCEPT !.state = "idle"] ELSE b2

\* lines 1555-1574: cooldown, gravity, integration, clamps, animation
BossPhysics(b) ==
    LET vy1 == b.vy + GRAVITY
        y1 == b.y + vy1
        landed == y1 + BOSS_H > GROUND_Y
        speed == IF b.state = "hit" THEN 5 ELSE IF b.state = "kowtow_attack" THEN 6 ELSE 10
        t1 == b.animTimer + 1
    IN  [b EXCEPT !.attackCooldown = Dec(@),
                  !.x = Clamp(b.x + b.vx, 0, ARENA_W - BOSS_W),
                  !.y = IF landed THEN GROUND_Y - BOSS_H ELSE y1,
                  !.vy = IF landed THEN 0 ELSE vy1,
                  !.animTimer = IF t1 > speed THEN 0 ELSE t1,
                  !.animFrame = IF t1 > speed THEN @ + 1 ELSE @]

\* The values of Math.random() that update() compares with a threshold:
\* lines 1479 (smash), 1486 (standoff) and 1534 (idle)
Rnd == [smash : BOOLEAN, standoff : BOOLEAN, idle : BOOLEAN]

\* lines 1381-1575: AI and physics of an unfrozen boss; the set of outcomes
\* over the values Math.random() may return
BossAI(w) ==
    LET p == w.p
        b0 == w.b
        b1 == IF b0.state # "kowtow_attack" THEN [b0 EXCEPT !.facingRight = p.x > b0.x] ELSE b0
        distance == Abs(p.x - b1.x)
        isBusy == b1.state \in {"attack", "jump_smash", "hit", "kowtow_attack"}
        starts == bossBehavior = "normal" /\ ~isBusy /\ b1.attackCooldown <= 0
        b2 == IF starts
              THEN [b1 EXCEPT !.state = "kowtow_attack", !.animFrame = 0, !.animTimer = 0, !.vx = 0]
              ELSE b1
        w2 == [w EXCEPT !.b = b2, !.ev.bossRan = TRUE,
                        !.ev.slam = IF starts THEN "start" ELSE @]
        w3s == IF b2.state = "kowtow_attack" THEN {KowtowStep(w2)}
               ELSE IF b2.state # "hit"
               THEN (IF bossBehavior = "normal"
                     THEN {Positioning(w2, r, distance) : r \in Rnd} ELSE {w2})
               ELSE {[w2 EXCEPT !.b = HitRecovery(b2)]}
    IN  {[w3 EXCEPT !.b = BossPhysics(@)] : w3 \in w3s}

\* faulty variant of BossRuns: the boss block is not guarded
BossRunsAlways(b) == TRUE

\* line 1344: the guard of the boss block
BossRuns(b) == ~b.isDead

\* faulty variant of BossStep: the AI of a living boss runs whatever its
\* hitStop and the spell
BossStepIgnoresFreeze(w) ==
    IF ~BossRuns(w.b) THEN {w}
    ELSE BossAI([w EXCEPT !.b.hitStop = Dec(@)])

\* lines 1344-1577
BossStep(w) ==
    IF ~BossRuns(w.b) THEN {w}
    ELSE
    LET b0 == [w.b EXCEPT !.hitStop = Dec(@)]
        isReacting == b0.state = "hit" \/ b0.hitStop > 0 \/ b0.isImmobilized
        b1 == IF ~isReacting THEN DebugOverride(b0) ELSE b0
    IN  IF b1.isImmobilized
        THEN IF b1.immobilizeTimer > 0
             THEN {[w EXCEPT !.b = [b1 EXCEPT !.immobilizeTimer = @ - 1]]}
             ELSE {[w EXCEPT !.b = [b1 EXCEPT !.isImmobilized = FALSE]]}
        ELSE IF b1.hitStop <= 0 THEN BossAI([w EXCEPT !.b = b1])
        ELSE {[w EXCEPT !.b = b1]}

\* faulty variant of DeathCheck: victory is signalled, isDead is not set
DeathCheckNoFlag(w) ==
    IF w.b.health <= 0 /\ ~infiniteHealth
    THEN [w EXCEPT !.gs = "VICTORY", !.ev.victory = TRUE]
    ELSE w

\* lines 1579-1588
DeathCheck(w) ==
    IF w.b.health <= 0
    THEN IF infiniteHealth
         THEN [w EXCEPT !.b.health = BOSS_MAX_HEALTH, !.uiB = BOSS_MAX_HEALTH]
         ELSE [w EXCEPT !.b.isDead = TRUE, !.gs = "VICTORY", !.ev.victory = TRUE]
    ELSE w

\* lines 649-684, called as resolveEntityCollision(player, boss)
Overlaps(p, b) ==
    /\ p.x < b.x + BOSS_W
    /\ p.x + PLAYER_W > b.x
    /\ p.y < b.y + BOSS_H
    /\ p.y + PLAYER_H > b.y

\* faulty variant of ResolveEntityCollision: the overlap is shared out, the
\* boss gives way by a unit as well
ResolveEntityCollisionPushesBoth(w) ==
    LET p == w.p
        b == w.b
        left == p.x + PLAYER_W \div 2 < b.x + BOSS_W \div 2
    IN  IF p.state = "dodge" \/ b.state = "dodge" THEN w
        ELSE IF p.hitStop > 0 \/ (b.hitStop > 0 /\ ~b.isImmobilized) THEN w
        ELSE IF ~Overlaps(p, b) THEN w
        ELSE [w EXCEPT !.p.x = IF left THEN @ - 200 ELSE @ + 200,
                       !.b.x = IF left THEN @ + 100 ELSE @ - 100,
                       !.ev.collided = TRUE]

\* lines 649-684
ResolveEntityCollision(w) ==
    LET p == w.p
        b == w.b
        p1Frozen == p.hitStop > 0
        p2Frozen == b.hitStop > 0 /\ ~b.isImmobilized
        left == p.x + PLAYER_W \div 2 < b.x + BOSS_W \div 2
        stopBoss == ~b.isImmobilized /\ b.state # "kowtow_attack"
    IN  IF p.state = "dodge" \/ b.state = "dodge" THEN w
        ELSE IF p1Frozen \/ p2Frozen THEN w
        ELSE IF ~Overlaps(p, b) THEN w
        ELSE [w EXCEPT !.p.x = IF left THEN @ - 200 ELSE @ + 200,
                       !.p.vx = IF left THEN (IF @ > 0 THEN 0 ELSE @)
                                ELSE (IF @ < 0 THEN 0 ELSE @),
                       !.b.vx = IF stopBoss THEN 0 ELSE @,
                       !.ev.collided = TRUE]

\* lines 1590-1592
Collision(w) ==
    IF ~w.b.isDead /\ ~w.p.isDead THEN ResolveEntityCollision(w) ELSE w

\* lines 687-1632: one call of update() with gameState PLAYING; the set of
\* outcomes over the values Math.random() may return
Update(w, k) ==
    LET w1 == PlayerStep(w, k)
    IN  IF w1.ev.earlyReturn THEN {w1}
        ELSE {Collision(DeathCheck(w2)) : w2 \in BossStep(w1)}

----------------------------------------------------------------------------
(* State after construction and after initGame *)

\* lines 143-168 and 566-585
InitPlayer ==
    [ x |-> 100 * U, y |-> 200 * U, vx |-> 0, vy |-> 0,
      health |-> PLAYER_MAX_HEALTH, isDead |-> FALSE, facingRight |-> TRUE,
      state |-> "idle", attackCooldown |-> 0, dodgeCooldown |-> 0, chargeTimer |-> 0,
      comboCount |-> 0, comboWindow |-> 0, animFrame |-> 0, animTimer |-> 0,
      hasHitInAir |-> FALSE, hasDealtDamage |-> FALSE, hitStop |-> 0, spellCooldown |-> 0 ]

\* lines 587-612
InitBoss ==
    [ id |-> "boss", x |-> 600 * U, y |-> 200 * U, vx |-> 0, vy |-> 0,
      health |-> BOSS_MAX_HEALTH, isDead |-> FALSE, facingRight |-> FALSE,
      state |-> "idle", attackCooldown |-> 60, animFrame |-> 0, animTimer |-> 0,
      hitStop |-> 0, isImmobilized |-> FALSE, immobilizeTimer |-> 0,
      immobilizeDamageTaken |-> 0 ]

\* line 170: bossRef starts as null (id "null"; the other fields are never read)
NullBoss == [InitBoss EXCEPT !.id = "null"]

\* faulty variant of InitGamePlayer: the health of the last run is kept
InitGamePlayerKeepsHealth(p) ==
    [InitPlayer EXCEPT !.facingRight = p.facingRight, !.health = p.health]

\* lines 566-585: initGame spreads the old player under the fields it
\* resets, so the fields it does not name (facingRight) keep their value
InitGamePlayer(p) == [InitPlayer EXCEPT !.facingRight = p.facingRight]

NoTimers == [restart |-> 0, bossIdle |-> 0]

(* History of the attack activation in progress, kept for the properties:  *)
(* kind is the step begun by the last attack transition, hits the hits it  *)
(* has registered, seg the segment index of its last spin hit and segHits  *)
(* the hits registered within that segment; single and perSeg are the      *)
(* largest values hits (of a single-hit step) and segHits have had.  chain  *)
(* is the sequence of grounded combo steps begun since the last step 1,     *)
(* landed those of them that registered a hit, chainDmg their damage.       *)
(* held is the set of keys that were down when update() last read the      *)
(* input (lines 779-781); dodges and casts count the dodges and the casts   *)
(* begun since it last read the dodge key, the spell key, as up; impacts    *)
(* counts the hit checks the boss's slam in progress has resolved.          *)
NoHist == [kind |-> "none", hits |-> 0, seg |-> -1, segHits |-> 0,
           single |-> 0, perSeg |-> 0,
           chain |-> << >>, landed |-> {}, chainDmg |-> 0,
           held |-> {}, dodges |-> 0, casts |-> 0, impacts |-> 0, busy |-> 0]

\* the history of a player whose combo steps 1 and 2 have both hit
ChainHist == [NoHist EXCEPT !.kind = "c2", !.hits = 1, !.single = 1,
                            !.chain = << "c1", "c2" >>, !.landed = {"c1", "c2"},
                            !.chainDmg = ATTACK_DAMAGE + COMBO_2_DAMAGE]

SingleHitKinds == {"c1", "c2", "c4", "heavy"}

Track(h, e, k) ==
    LET began == e.trans \in {"heavy", "light", "cancel4", "air"}
        chained == e.trans = "light" /\ e.kind \in {"c2", "c3", "c4"} /\ h.chain # << >>
        h0 == IF began
              THEN [h EXCEPT !.kind = e.kind, !.hits = 0, !.seg = -1, !.segHits = 0,
                             !.chain = IF chained THEN Append(@, e.kind)
                                       ELSE IF e.kind = "c1" THEN << "c1" >> ELSE << >>,
                             !.landed = IF chained THEN @ ELSE {},
                             !.chainDmg = IF chained THEN @ ELSE 0]
              ELSE h
        h1 == IF e.hit
              THEN [h0 EXCEPT !.hits = @ + 1,
                              !.seg = e.seg,
                              !.segHits = IF e.seg = h0.seg THEN @ + 1 ELSE 1,
                              !.landed = IF h0.chain # << >> THEN @ \cup {h0.kind} ELSE @,
                              !.chainDmg = IF h0.chain # << >> THEN @ + e.dmg ELSE @]
              ELSE h0
        h2 == [h1 EXCEPT !.single = IF h1.kind \in SingleHitKinds THEN Max(@, h1.hits) ELSE @,
                         !.perSeg = IF h1.kind = "c3" THEN Max(@, h1.segHits) ELSE @,
                         !.held = IF e.playerRan THEN k ELSE @,
                         !.dodges = IF e.trans = "dodge" THEN @ + 1
                                    ELSE IF e.playerRan /\ ~DodgePressed(k) THEN 0 ELSE @,
                         !.casts = IF e.cast THEN @ + 1
                                   ELSE IF e.playerRan /\ "KeyK" \notin k THEN 0 ELSE @,
                         !.impacts = IF e.slam = "start" THEN 0
                                     ELSE IF e.slam = "impact" THEN @ + 1 ELSE @]
    IN  IF e.trans = "auto4"
        THEN [h2 EXCEPT !.kind = "c4", !.hits = 0, !.seg = -1, !.segHits = 0,
                        !.chain = IF @ # << >> THEN Append(@, "c4") ELSE @]
        ELSE h2

\* the states update() puts the player in for the length of an action
ActionStates == {"attack", "heavy_attack", "air_attack", "dodge", "hit"}

\* the ticks on which the player's logic ran and left it in an action state,
\* counted since the last transition into an attack or a dodge and the last
\* blow received; a frozen tick counts for nothing
Busy(n, e, p) ==
    IF p.state \notin ActionStates \/ p.isDead THEN 0
    ELSE IF e.trans # "none" \/ e.bossHit THEN 1
    ELSE IF e.playerRan THEN n + 1
    ELSE n

World ==
    [ p |-> player, b |-> boss, c3 |-> c3Hits, st |-> stamina, sc |-> score,
      uiP |-> uiPlayerHealth, uiB |-> uiBossHealth, gs |-> gameState,
      tm |-> timers, ev |-> NoEv ]

Install(w, k) ==
    /\ player' = w.p
    /\ boss' = w.b
    /\ c3Hits' = w.c3
    /\ stamina' = w.st
    /\ score' = w.sc
    /\ uiPlayerHealth' = w.uiP
    /\ uiBossHealth' = w.uiB
    /\ gameState' = w.gs
    /\ timers' = w.tm
    /\ hist' = [Track(hist, w.ev, k) EXCEPT !.busy = Busy(@, w.ev, w.p)]
    /\ ev' = w.ev

----------------------------------------------------------------------------
(* The frame loop and the narrative service *)

NoFrame == [delta |-> 0, start |-> 0, ran |-> 0, gs |-> "MENU"]

(* generateLevelLore, src/services/geminiService.ts:7-51.  An outcome says   *)
(* whether process.env.API_KEY was set, whether ai.models.generateContent  *)
(* threw or rejected, and what response.text was: nothing, text that is not *)
(* JSON, or the JSON text of a level record.                                *)
LoreOutcomes == [apiKey : BOOLEAN, callThrows : BOOLEAN, text : {"", "not json", "json"}]

LoreFields == {"chapterTitle", "introText", "bossName", "bossDescription"}

\* lines 10-15, 44-49: the two fallback records; the record a response carries
FallbackNoKey == [chapterTitle |-> "Black Wind Mountain", introText |-> "intro 1",
                  bossName |-> "Black Wind King", bossDescription |-> "bear"]
FallbackError == [chapterTitle |-> "Flower Fruit Mountain", introText |-> "intro 2",
                  bossName |-> "Stone Vanguard", bossDescription |-> "stone"]
GeneratedLore == [chapterTitle |-> "generated", introText |-> "generated",
                  bossName |-> "generated", bossDescription |-> "generated"]

\* line 39: JSON.parse throws on text that is not JSON
JsonParse(text) ==
    IF text = "json" THEN [threw |-> FALSE, value |-> GeneratedLore]
    ELSE [threw |-> TRUE, value |-> "none"]

Resolved(v) == [rejected |-> FALSE, value |-> v]
Rejected == [rejected |-> TRUE, value |-> "none"]

\* faulty variant of GenerateLevelLore: the parse error escapes the try block
GenerateLevelLoreParseEscapes(o) ==
    IF ~o.apiKey THEN Resolved(FallbackNoKey)
    ELSE IF o.callThrows \/ o.text = "" THEN Resolved(FallbackError)
    ELSE IF JsonParse(o.text).threw THEN Rejected
    ELSE Resolved(JsonParse(o.text).value)

\* lines 7-51
GenerateLevelLore(o) ==
    IF ~o.apiKey THEN Resolved(FallbackNoKey)
    ELSE IF o.callThrows THEN Resolved(FallbackError)
    ELSE IF o.text = "" THEN Resolved(FallbackError)
    ELSE IF JsonParse(o.text).threw THEN Resolved(FallbackError)
    ELSE Resolved(JsonParse(o.text).value)

\* the first thing that went wrong in the call, "ok" if nothing did
LoreCause(o) ==
    IF ~o.apiKey THEN "no key"
    ELSE IF o.callThrows THEN "call threw"
    ELSE IF o.text = "" THEN "empty response"
    ELSE IF JsonParse(o.text).threw THEN "invalid JSON"
    ELSE "ok"

----------------------------------------------------------------------------
(* Runs.  A run starts at the menu, or is picked up at a later moment of   *)
(* play: both entities on the ground, the player within reach of the boss, *)
(* health lowered by earlier exchanges.  In each scenario the player uses  *)
(* the keys in use (those in held are already down), produces at most      *)
(* events key events, and lets a number of ticks in gaps pass between two  *)
(* of them.                                                                *)

\* line 145: the player is constructed at y = 0
ConstructedPlayer == [InitPlayer EXCEPT !.y = 0]

GroundedPlayer == [InitPlayer EXCEPT !.x = 550 * U, !.y = GROUND_Y - PLAYER_H]
GroundedBoss == [InitBoss EXCEPT !.y = GROUND_Y - BOSS_H, !.attackCooldown = 59]
\* the boss in the last windup frame of its slam
WindupBoss == [GroundedBoss EXCEPT !.state = "kowtow_attack", !.animFrame = 3,
                                   !.attackCooldown = 0]
\* the boss backing away from the player
RunningBoss == [GroundedBoss EXCEPT !.state = "run", !.vx = 150]
\* the boss under the spell, after a heavy attack and a combo step 1 have hit it
BoundBoss == [GroundedBoss EXCEPT !.isImmobilized = TRUE, !.immobilizeTimer = 12,
                                  !.immobilizeDamageTaken = H(72),
                                  !.health = BOSS_MAX_HEALTH - H(72)]
\* the boss freshly under the spell
HeldBoss == [GroundedBoss EXCEPT !.isImmobilized = TRUE, !.immobilizeTimer = 40]
\* the boss backed against the right wall, and the player that has dodged
\* past it and come to rest at the wall behind it
CorneredBoss == [GroundedBoss EXCEPT !.x = ARENA_W - BOSS_W, !.facingRight = TRUE]
WalledPlayer == [GroundedPlayer EXCEPT !.x = ARENA_W]
\* the player who has held the attack key past the charge threshold
ChargedPlayer == [GroundedPlayer EXCEPT !.chargeTimer = CHARGE_THRESHOLD + 1]
\* the player after combo steps 1 and 2, the combo window still open
ChainPlayer == [GroundedPlayer EXCEPT !.comboCount = 2, !.comboWindow = 40,
                                      !.hasDealtDamage = TRUE]

\* the player after combo steps 1 and 2, the combo window about to run out
LapsingPlayer == [ChainPlayer EXCEPT !.comboWindow = 3]

\* the player knocked out of step 3 by the slam and back on its feet, the
\* combo window still open
InterruptedPlayer == [ChainPlayer EXCEPT !.comboCount = 3, !.comboWindow = 10]

\* the player after a whole combo, the combo window still open
ComboDonePlayer == [ChainPlayer EXCEPT !.comboCount = 4]

Scenarios ==
    { [name |-> "menu", gs |-> "MENU", p |-> ConstructedPlayer, b |-> NullBoss,
       use |-> {"KeyD", "KeyK"}, held |-> {}, gaps |-> {0, 21}, events |-> 2],
      [name |-> "melee", gs |-> "PLAYING", p |-> GroundedPlayer, b |-> GroundedBoss,
       use |-> {"KeyJ"}, held |-> {}, gaps |-> {0, 1, 21}, events |-> 4],
      [name |-> "trade", gs |-> "PLAYING", p |-> GroundedPlayer, b |-> WindupBoss,
       use |-> {"KeyJ"}, held |-> {}, gaps |-> {0, 1, 2, 3}, events |-> 2],
      [name |-> "lethal", gs |-> "PLAYING",
       p |-> [GroundedPlayer EXCEPT !.health = H(25)],
       b |-> [WindupBoss EXCEPT !.health = H(12)],
       use |-> {"KeyJ", "KeyL"}, held |-> {}, gaps |-> {0, 1, 3}, events |-> 2],
      [name |-> "chain", gs |-> "PLAYING", p |-> ChainPlayer,
       b |-> [GroundedBoss EXCEPT !.health = BOSS_MAX_HEALTH - ChainHist.chainDmg],
       use |-> {"KeyJ"}, held |-> {}, gaps |-> {0, 1, 2, 3}, events |-> 2],
      [name |-> "wrap", gs |-> "PLAYING", p |-> ComboDonePlayer,
       b |-> [GroundedBoss EXCEPT !.health = H(10)],
       use |-> {"KeyJ"}, held |-> {}, gaps |-> {0, 1}, events |-> 2],
      [name |-> "air", gs |-> "PLAYING", p |-> GroundedPlayer, b |-> GroundedBoss,
       use |-> {"KeyJ", "Space"}, held |-> {"Space"}, gaps |-> {1, 3, 6}, events |-> 4],
      [name |-> "spell", gs |-> "PLAYING", p |-> GroundedPlayer, b |-> RunningBoss,
       use |-> {"KeyJ", "KeyK"}, held |-> {}, gaps |-> {0, 1, 3}, events |-> 4],
      [name |-> "bound", gs |-> "PLAYING", p |-> ChainPlayer, b |-> BoundBoss,
       use |-> {"KeyJ"}, held |-> {}, gaps |-> {0, 1, 3}, events |-> 2],
      [name |-> "spent", gs |-> "PLAYING", p |-> ChargedPlayer, b |-> GroundedBoss,
       use |-> {"KeyJ", "KeyL"}, held |-> {"KeyJ"}, gaps |-> {0, 1, 3}, events |-> 3],
      [name |-> "stall", gs |-> "PLAYING", p |-> GroundedPlayer,
       b |-> [GroundedBoss EXCEPT !.health = H(12)],
       use |-> {"KeyJ"}, held |-> {}, gaps |-> {0, 1}, events |-> 2],
      [name |-> "hop", gs |-> "PLAYING", p |-> GroundedPlayer, b |-> BoundBoss,
       use |-> {"KeyJ", "Space"}, held |-> {"Space"}, gaps |-> {1}, events |-> 2],
      [name |-> "wall", gs |-> "PLAYING", p |-> ChargedPlayer, b |-> HeldBoss,
       use |-> {"KeyJ"}, held |-> {"KeyJ"}, gaps |-> {0, 1}, events |-> 1],
      [name |-> "lapse", gs |-> "PLAYING", p |-> LapsingPlayer, b |-> GroundedBoss,
       use |-> {"KeyJ"}, held |-> {}, gaps |-> {0, 1, 3}, events |-> 2],
      [name |-> "knocked", gs |-> "PLAYING", p |-> InterruptedPlayer, b |-> GroundedBoss,
       use |-> {"KeyJ"}, held |-> {}, gaps |-> {0, 1}, events |-> 2],
      [name |-> "corner", gs |-> "PLAYING", p |-> WalledPlayer, b |-> CorneredBoss,
       use |-> {"KeyA"}, held |-> {}, gaps |-> {0, 1}, events |-> 2] }

Init ==
    \E sc \in Scenarios :
        /\ gameState = sc.gs
        /\ mounted = sc.gs
        /\ player = sc.p
        /\ boss = sc.b
        /\ scenario = sc
        /\ c3Hits = 0
        /\ keys = sc.held
        /\ acc = 0
        /\ stamina = 200
        /\ score = IF sc.gs = "MENU" THEN 0 ELSE (BOSS_MAX_HEALTH - sc.b.health) \div HS
        /\ uiPlayerHealth = sc.p.health
        /\ uiBossHealth = IF sc.gs = "MENU" THEN H(500) ELSE sc.b.health
        /\ ev = NoEv
        /\ hist = [IF sc.p.comboCount = 2 THEN ChainHist ELSE NoHist EXCEPT !.held = sc.held]
        /\ ticks = 0
        /\ keyBudget = sc.events
        /\ sinceKey = 0
        /\ timers = NoTimers
        /\ lorePending = FALSE
        /\ levelData = IF sc.gs = "MENU" THEN "null" ELSE FallbackNoKey
        /\ loreCall = "none"
        /\ frame = [NoFrame EXCEPT !.gs = sc.gs]

\* sinceKey need not count beyond the longest gap
MaxGap == 21

\* the browser runs no other callback while loop() is running its ticks
BetweenFrames == acc < FIXED_TIME_STEP

Deltas == {16667, 33334}

\* a 50 Hz display and a stall of a quarter of a second
StallDeltas == {20000, 250000}

FrameDeltas == IF scenario.name = "stall" THEN StallDeltas ELSE Deltas

\* src/App.tsx:17-18
StartGame ==
    /\ gameState = "MENU" /\ mounted = "MENU"
    /\ gameState' = "LOADING"
    /\ lorePending' = TRUE
    /\ UNCHANGED << mounted, player, boss, c3Hits, keys, acc, stamina, score,
                    uiPlayerHealth, uiBossHealth, ev, ticks, keyBudget, sinceKey, scenario, hist,
                    timers, levelData, loreCall, frame >>

\* src/App.tsx:21-24: the promise of generateLevelLore settles; a rejection
\* ends handleStartGame at the await
LoreResolved ==
    /\ lorePending /\ BetweenFrames
    /\ lorePending' = FALSE
    /\ \E o \in LoreOutcomes :
         LET r == GenerateLevelLore(o)
         IN  /\ loreCall' = LoreCause(o)
             /\ levelData' = IF r.rejected THEN levelData ELSE r.value
             /\ gameState' = IF r.rejected THEN gameState ELSE "PLAYING"
    /\ UNCHANGED << mounted, player, boss, c3Hits, keys, acc, stamina, score,
                    uiPlayerHealth, uiBossHealth, ev, ticks, keyBudget, sinceKey, scenario, hist,
                    timers, frame >>

\* src/App.tsx:27-33
Restart ==
    /\ gameState \in {"GAME_OVER", "VICTORY"} /\ mounted = gameState
    /\ gameState' = "LOADING"
    /\ timers' = [timers EXCEPT !.restart = @ + 1]
    /\ UNCHANGED << mounted, player, boss, c3Hits, keys, acc, stamina, score,
                    uiPlayerHealth, uiBossHealth, ev, ticks, keyBudget, sinceKey, scenario, hist,
                    lorePending, levelData, loreCall, frame >>

\* a pending setTimeout callback runs: src/App.tsx:30-32 or GameCanvas.tsx:1520
TimerFires ==
    /\ BetweenFrames
    /\ \E kind \in {"restart", "bossIdle"} :
        /\ timers[kind] > 0
        /\ timers' = [timers EXCEPT ![kind] = @ - 1]
        /\ gameState' = IF kind = "restart" THEN "PLAYING" ELSE gameState
        /\ boss' = IF kind = "bossIdle" /\ boss.state = "attack"
                   THEN [boss EXCEPT !.state = "idle"] ELSE boss
    /\ UNCHANGED << mounted, player, c3Hits, keys, acc, stamina, score,
                    uiPlayerHealth, uiBossHealth, ev, ticks, keyBudget, sinceKey, scenario, hist,
                    lorePending, levelData, loreCall, frame >>

\* React commits a render with the new gameState: the effects of lines 628-632
\* (initGame) and 2186-2218 (stop the old loop, start a new one when PLAYING)
Commit ==
    /\ mounted # gameState /\ BetweenFrames
    /\ mounted' = gameState
    /\ acc' = 0
    /\ frame' = [NoFrame EXCEPT !.gs = gameState]
    /\ IF gameState = "PLAYING"
       THEN /\ player' = InitGamePlayer(player)
            /\ boss' = InitBoss
            /\ c3Hits' = 0
            /\ stamina' = 200
            /\ score' = 0
            /\ uiPlayerHealth' = H(100)
            /\ uiBossHealth' = H(1200)
            /\ ev' = NoEv
            /\ hist' = [NoHist EXCEPT !.held = hist.held]
       ELSE UNCHANGED << player, boss, c3Hits, stamina, score, uiPlayerHealth, uiBossHealth,
                         ev, hist >>
    /\ UNCHANGED << gameState, keys, ticks, keyBudget, sinceKey, scenario, timers, lorePending,
                    levelData, loreCall >>

\* faulty variant of Accumulate: the backlog is not capped
AccumulateNoCap(a, delta) == a + delta

\* lines 2195-2198
Accumulate(a, delta) == Min(a + delta, ACC_CAP)

\* lines 2189-2198: an animation frame arrives delta microseconds after the
\* last (the first call of a new loop sees a delta of 0 and changes nothing)
Frame ==
    /\ mounted = "PLAYING" /\ BetweenFrames /\ ticks < MaxTicks
    /\ \E delta \in FrameDeltas :
         /\ acc' = Accumulate(acc, delta)
         /\ frame' = [delta |-> delta, start |-> Accumulate(acc, delta), ran |-> 0,
                      gs |-> gameState]
    /\ UNCHANGED << gameState, mounted, player, boss, c3Hits, keys, stamina, score,
                    uiPlayerHealth, uiBossHealth, ev, ticks, keyBudget, sinceKey, scenario, hist,
                    timers, lorePending, levelData, loreCall >>

\* lines 2200-2203: one pass of the while loop, one update()
Tick ==
    /\ mounted = "PLAYING" /\ ~BetweenFrames /\ ticks < MaxTicks
    /\ \E w \in Update(World, keys) : Install(w, keys)
    /\ acc' = acc - FIXED_TIME_STEP
    /\ frame' = [frame EXCEPT !.ran = @ + 1]
    /\ ticks' = ticks + 1
    /\ sinceKey' = Min(sinceKey + 1, MaxGap + 1)
    /\ UNCHANGED << mounted, keys, keyBudget, scenario, lorePending, levelData, loreCall >>

KeyAllowed == BetweenFrames /\ keyBudget > 0 /\ sinceKey \in scenario.gaps

\* lines 544-548
KeyDown ==
    /\ KeyAllowed
    /\ \E k \in scenario.use \ keys : keys' = keys \cup {k}
    /\ keyBudget' = keyBudget - 1
    /\ sinceKey' = 0
    /\ UNCHANGED << gameState, mounted, player, boss, c3Hits, acc, stamina, score,
                    uiPlayerHealth, uiBossHealth, ev, ticks, scenario, hist, timers, lorePending,
                    levelData, loreCall, frame >>

\* lines 549-551
KeyUp ==
    /\ KeyAllowed
    /\ \E k \in keys : keys' = keys \ {k}
    /\ keyBudget' = keyBudget - 1
    /\ sinceKey' = 0
    /\ UNCHANGED << gameState, mounted, player, boss, c3Hits, acc, stamina, score,
                    uiPlayerHealth, uiBossHealth, ev, ticks, scenario, hist, timers, lorePending,
                    levelData, loreCall, frame >>

Next ==
    \/ StartGame
    \/ LoreResolved
    \/ Restart
    \/ TimerFires
    \/ Commit
    \/ Frame
    \/ Tick
    \/ KeyDown
    \/ KeyUp

Spec == Init /\ [][Next]_vars

----------------------------------------------------------------------------
(* Properties.  A tick is a step that changes ticks; ev and hist describe  *)
(* the last tick of the current run.                                       *)

IsTick == ticks' # ticks

\* the step on which initGame starts a new run
InitGameStep == mounted # "PLAYING" /\ mounted' = "PLAYING"

AttackTransitions == {"heavy", "light", "cancel4", "air", "auto4"}

\* C1: at the end of every tick 0 <= health <= maxHealth holds for the
\* player and for the boss, and the values reported through setPlayerHealth
\* and setBossHealth are not negative.
C1_HealthInRange ==
    /\ 0 <= player.health /\ player.health <= PLAYER_MAX_HEALTH
    /\ 0 <= boss.health /\ boss.health <= BOSS_MAX_HEALTH
    /\ uiPlayerHealth >= 0
    /\ uiBossHealth >= 0

\* a registered hit has taken the boss below zero and the value was reported
C1_NegativeHealthReported ==
    ev.hit /\ boss.health < 0 /\ uiBossHealth = boss.health

C2_DeadIff ==
    /\ player.isDead <=> player.health <= 0
    /\ boss.isDead <=> boss.health <= 0

C2_StaysDead ==
    ~InitGameStep => /\ player.isDead => player'.isDead
                     /\ boss.isDead => boss'.isDead

\* C2: for each entity isDead holds exactly when its health is <= 0, and
\* within a run isDead, once true, stays true.
C2_DeadIffNoHealthForever == []C2_DeadIff /\ [][C2_StaysDead]_vars

\* the boss died on an earlier tick and ticks still run; the player is alive
C2_DeadBossLaterTick ==
    boss.isDead /\ boss.health <= 0 /\ ~ev.hit /\ ev.victory /\ ~player.isDead

C3_KillSignalsVictory ==
    ev.hit /\ boss.health <= 0 => ev.victory /\ boss.isDead

C3_DeadBossIsInert ==
    /\ IsTick /\ ev'.hit /\ boss'.health <= 0 => gameState' = "VICTORY"
    /\ boss.isDead /\ ~InitGameStep => boss' = boss
    /\ boss.isDead /\ IsTick => ~ev'.bossRan

\* C3: the tick on which a player hit takes the boss to health <= 0 sets the
\* game state to VICTORY, and from then on no step of the run changes the
\* boss and no tick runs its AI or physics.
C3_VictoryAndNoBossLogic == []C3_KillSignalsVictory /\ [][C3_DeadBossIsInert]_vars

\* the killing hit has just registered: victory is signalled on that tick
C3_KillingHit ==
    ev.hit /\ boss.health <= 0 /\ ev.victory /\ gameState = "VICTORY" /\ mounted = "PLAYING"

C4_DeathSignalsGameOver ==
    ev.bossHit /\ player.health <= 0 => ev.gameOver /\ player.isDead

C4_DeadPlayerIgnoresInput ==
    /\ IsTick /\ ev'.bossHit /\ player'.health <= 0 => gameState' = "GAME_OVER"
    /\ IsTick /\ player.isDead =>
          /\ ~ev'.playerRan /\ ev'.trans = "none" /\ ~ev'.cast /\ ~ev'.hit
          /\ player'.x = player.x /\ player'.y = player.y
          /\ player'.state = player.state

\* C4: the tick on which a boss attack takes the player to health <= 0 sets
\* the game state to GAME_OVER, and on later ticks the dead player starts no
\* dodge, attack, spell cast or movement.
C4_GameOverAndNoInput == []C4_DeathSignalsGameOver /\ [][C4_DeadPlayerIgnoresInput]_vars

\* a tick ran with the player dead, its stun expired and a key held down
C4_DeadPlayerKeyHeld ==
    player.isDead /\ player.hitStop = 0 /\ keys # {} /\ ~ev.bossHit /\ ticks > 0

C6_OnePerSegment == hist.perSeg <= 1

C6_RearmOnlyOnNewSegment ==
    /\ IsTick /\ IsSpin(player) /\ IsSpin(player') /\ hist'.kind = hist.kind
    /\ player.hasDealtDamage /\ (~player'.hasDealtDamage \/ ev'.hit)
    => c3Hits' > c3Hits

\* C6: the spin registers at most one hit per value of the segment index,
\* and while the spin lasts its dedup flag is cleared only on a tick on
\* which the recorded segment index grows.
C6_SpinOneHitPerSegment == []C6_OnePerSegment /\ [][C6_RearmOnlyOnNewSegment]_vars

\* the spin has hit in several segments and overlaps the boss on a tick of a
\* segment that has already hit
C6_OverlapWithinSegment ==
    hist.kind = "c3" /\ hist.hits >= 3 /\ ev.geo /\ ~ev.hit /\ ~ev.rearm

C7_Decrements(e, f) == ~e.isDead /\ e.hitStop > 1 => f.hitStop = e.hitStop - 1

\* C7: a hitStop that is nonzero decreases by exactly 1 on every tick and
\* nothing raises it.  Stated here for a living entity whose hitStop is
\* still nonzero after the tick's own decrement (hitStop > 1 before the
\* tick), which the sentence implies.
C7_HitStopCountsDown ==
    [][IsTick => C7_Decrements(player, player') /\ C7_Decrements(boss, boss')]_vars

C8_PlayerFrozen ==
    ~player.isDead /\ player.hitStop > 1 =>
        /\ player'.x = player.x /\ player'.y = player.y
        /\ player'.vx = player.vx /\ player'.vy = player.vy
        /\ player'.state = player.state
        /\ player'.attackCooldown = player.attackCooldown
        /\ player'.dodgeCooldown = player.dodgeCooldown
        /\ player'.spellCooldown = player.spellCooldown

C8_BossFrozen ==
    ~boss.isDead /\ boss.hitStop > 1 =>
        /\ boss'.x = boss.x /\ boss'.y = boss.y
        /\ boss'.vx = boss.vx /\ boss'.vy = boss.vy
        /\ boss'.state = boss.state
        /\ boss'.attackCooldown = boss.attackCooldown

\* C8: while an entity's hitStop is nonzero its position, velocity, state
\* tag and cooldown counters do not change on any tick.  Stated here for a
\* living entity whose hitStop is still nonzero after the tick's own
\* decrement, which the sentence implies.
C8_FrozenEntityUnchanged == [][IsTick => C8_PlayerFrozen /\ C8_BossFrozen]_vars

\* C9: comboCount is in {0,1,2,3,4} in every reachable state.
C9_ComboCountInRange == player.comboCount \in 0..4

\* a light attack inside the combo window of a finished combo wraps to step 1
C9_WrapsToStepOne ==
    ev.trans = "light" /\ ev.kind = "c1" /\ player.comboCount = 1 /\ player.comboWindow > 0

\* C10: every transition into an attack step (light step by input, the
\* automatic step 3 -> step 4, the air cancel into step 4, air_attack,
\* heavy_attack) leaves hasDealtDamage = false and animFrame = 0 at the
\* moment the step begins.
C10_TransitionResets == ev.trans \in AttackTransitions => ev.transClean

\* the air cancel began the finisher from an attack that had dealt damage or
\* advanced its frame
C10_CancelFromDirty == ev.trans = "cancel4" /\ ev.dirty /\ ev.transClean

\* position, velocity and state tag of the boss are left alone by the step
BossHeld ==
    /\ boss'.x = boss.x /\ boss'.y = boss.y
    /\ boss'.vx = boss.vx /\ boss'.vy = boss.vy
    /\ boss'.state = boss.state

C11_AccumulatorBelowThreshold ==
    boss.isImmobilized => boss.immobilizeDamageTaken <= IMMOBILIZE_BREAK_THRESHOLD

\* the spell's timer had run out before the tick: the boss block ends the spell
C11_TimerRanOut == boss.isImmobilized /\ boss.immobilizeTimer = 0 /\ ~ev'.cast

C11_MutedHit ==
    IsTick /\ ev'.hit /\ ev'.bound /\ ev'.taken <= IMMOBILIZE_BREAK_THRESHOLD =>
        /\ ~ev'.broke
        /\ boss'.isImmobilized \/ C11_TimerRanOut
        /\ boss'.immobilizeDamageTaken = ev'.taken
        /\ BossHeld
        /\ player'.hitStop = 3
        /\ ev'.stun = 3

\* C11: a registered hit on an immobilized boss that leaves
\* immobilizeDamageTaken <= 80 does not end the spell and gives only the
\* muted reaction (boss position, velocity and state tag unchanged, hitStop 3
\* for both); hence isImmobilized implies immobilizeDamageTaken <= 80.
C11_MutedBelowThreshold == []C11_AccumulatorBelowThreshold /\ [][C11_MutedHit]_vars

\* a spin hit has landed on the immobilized boss and left the spell in place
C11_MutedSpinHit ==
    /\ ev.hit /\ ev.bound /\ ~ev.broke /\ boss.isImmobilized
    /\ boss.immobilizeDamageTaken > H(72) /\ player.hitStop = 3

C12_BreakingHit ==
    IsTick /\ ev'.hit /\ ev'.bound /\ ev'.taken > IMMOBILIZE_BREAK_THRESHOLD =>
        /\ ev'.broke
        /\ ~boss'.isImmobilized
        /\ boss'.immobilizeTimer = 0 /\ boss'.immobilizeDamageTaken = 0
        /\ boss'.state = "hit"
        /\ boss'.vx = IF player'.facingRight THEN 8 * U ELSE -8 * U
        /\ player'.hitStop >= 18 /\ ev'.stun >= 18

C12_BreaksOnce ==
    IsTick /\ ev'.broke => ev'.hit /\ ev'.bound /\ ~boss'.isImmobilized

\* C12: the hit that takes immobilizeDamageTaken above 80 ends the spell on
\* that tick (isImmobilized false, timer and accumulator zero, boss in state
\* hit with velocity 8 in the player's facing direction, hitStop >= 18 for
\* both), and a break needs a boss that is immobilized and leaves it free.
C12_BreakAboveThreshold == [][C12_BreakingHit /\ C12_BreaksOnce]_vars

\* the second spin hit took the accumulator from 72 past 80 and broke the spell
C12_SpinBrokeSpell ==
    /\ ev.hit /\ ev.broke /\ ev.taken > IMMOBILIZE_BREAK_THRESHOLD
    /\ hist.kind = "c3" /\ hist.hits = 2
    /\ ~boss.isImmobilized /\ boss.state = "hit" /\ player.hitStop = 18

C13_CastOnlyFreezes ==
    IsTick /\ ev'.cast =>
        ev'.castBoss = [boss EXCEPT !.isImmobilized = TRUE, !.immobilizeTimer = 300,
                                    !.immobilizeDamageTaken = 0]

C13_HeldWhileBound ==
    IF IsTick
    THEN (boss.isImmobilized \/ ev'.cast) /\ boss'.isImmobilized /\ ~ev'.hit => BossHeld
    ELSE boss.isImmobilized /\ boss'.isImmobilized => BossHeld

\* C13: a successful cast sets isImmobilized, immobilizeTimer = 300 and
\* immobilizeDamageTaken = 0 and changes nothing else on the boss; on the
\* tick of the cast and on every later step on which the boss is still
\* immobilized and no player hit lands, the boss's position, velocity and
\* state tag do not change.
C13_CastFreezesBoss == [][C13_CastOnlyFreezes /\ C13_HeldWhileBound]_vars

\* the boss was cast on while backing away; ticks later it is still held,
\* tagged run with its velocity, and the player has just collided with it
C13_HeldBossInMotion ==
    /\ boss.isImmobilized /\ boss.immobilizeTimer < 295 /\ boss.immobilizeTimer > 12
    /\ boss.state = "run" /\ boss.vx # 0 /\ ~ev.cast /\ ~ev.hit /\ ev.collided

\* the entity states the pending update() call can end in
C14_Outcomes == {<< w.p, w.b >> : w \in Update(World, keys)}

\* C14: two runs from the reset state that are fed the same inputs and the
\* same frame deltas go through the same player and boss states tick for
\* tick: in every state in which a tick is due, the keys held and the state
\* reached so far determine the entities' state after the tick.
C14_Deterministic ==
    mounted = "PLAYING" /\ ~BetweenFrames => Cardinality(C14_Outcomes) = 1

C15_ChainLanded ==
    /\ hist.chain = << "c1", "c2", "c3", "c4" >>
    /\ hist.landed = {"c1", "c2", "c3", "c4"}

\* the boss was at full health when the chain began and nothing else hit it
C15_FromFullHealth == boss.health + hist.chainDmg = BOSS_MAX_HEALTH

C15_FourBaseDamages == ATTACK_DAMAGE + COMBO_2_DAMAGE + H(c3TotalDamage) + COMBO_4_SLAM_DAMAGE

\* C15: when the four grounded combo steps 1, 2, 3, 4 have landed in
\* sequence on a boss that was at full health, with no other damage source,
\* the boss's health is 1200 - (12 + 18 + 45 + 45).  Stated for a chain whose
\* spin did not miss (its damage is at least the sum of the four).
C15_ChainDamage ==
    C15_ChainLanded /\ C15_FromFullHealth /\ hist.chainDmg >= C15_FourBaseDamages
    => boss.health = BOSS_MAX_HEALTH - C15_FourBaseDamages

\* the finisher has landed at the end of a chain that hit in all four steps
C15_FinisherLanded == C15_ChainLanded /\ C15_FromFullHealth /\ ev.hit /\ ev.dmg = COMBO_4_SLAM_DAMAGE

\* C16: no cooldown or timer counter is ever negative: the player's
\* attackCooldown, dodgeCooldown, comboWindow, spellCooldown, chargeTimer and
\* hitStop, and the boss's attackCooldown, hitStop and immobilizeTimer.
C16_CountersNonNegative ==
    /\ player.attackCooldown >= 0 /\ player.dodgeCooldown >= 0
    /\ player.comboWindow >= 0 /\ player.spellCooldown >= 0
    /\ player.chargeTimer >= 0 /\ player.hitStop >= 0
    /\ boss.attackCooldown >= 0 /\ boss.hitStop >= 0 /\ boss.immobilizeTimer >= 0

\* both entities ran a tick with their counters already counted down to 0:
\* the hitStop and cooldown of a landed attack, the boss's attack cooldown
C16_CountersRestAtZero ==
    /\ ev.playerRan /\ ev.bossRan /\ hist.hits >= 1
    /\ player.attackCooldown = 0 /\ player.hitStop = 0 /\ player.dodgeCooldown = 0
    /\ player.spellCooldown = 0
    /\ boss.attackCooldown = 0 /\ boss.hitStop = 0 /\ boss.immobilizeTimer = 0

\* the update() calls one call of loop() can make
C17_MaxTicksPerFrame == ACC_CAP \div FIXED_TIME_STEP

C17_Accounting ==
    /\ 0 <= acc /\ acc <= ACC_CAP
    /\ acc = frame.start - frame.ran * FIXED_TIME_STEP
    /\ frame.start <= ACC_CAP
    /\ frame.ran <= C17_MaxTicksPerFrame
    /\ BetweenFrames => /\ frame.ran = frame.start \div FIXED_TIME_STEP
                        /\ acc = frame.start % FIXED_TIME_STEP

C17_AddsThenCaps ==
    frame' # frame /\ ~IsTick /\ mounted' = mounted =>
        /\ BetweenFrames
        /\ frame'.start = Min(acc + frame'.delta, ACC_CAP)
        /\ acc' = frame'.start

\* C17: each animation frame adds the elapsed time to the accumulator and
\* caps it at 100 ms; update() then runs floor(accumulator / tick) times;
\* the remainder it leaves satisfies 0 <= remainder < tick; so a frame runs
\* at most floor(100 ms / tick) ticks however long the stall was.
C17_FixedStepDriver == []C17_Accounting /\ [][C17_AddsThenCaps]_vars

\* a frame that came 250 ms after the last: the backlog was capped at
\* 100 ms, five ticks ran and what is left of the 100 ms is carried over
C17_StallCapped ==
    /\ frame.delta > ACC_CAP /\ frame.start = ACC_CAP
    /\ frame.ran = C17_MaxTicksPerFrame /\ BetweenFrames
    /\ acc = ACC_CAP - C17_MaxTicksPerFrame * FIXED_TIME_STEP /\ acc > 0

C18_Signalled == gameState \in {"GAME_OVER", "VICTORY"}

\* C18: update() changes entity state only while the game state is PLAYING:
\* once GAME_OVER or VICTORY has been signalled no further tick changes any
\* state.  Stated here for the ticks that the same call of loop() still runs
\* after the tick that gave the signal.
C18_NoTickAfterSignal ==
    [][IsTick /\ frame.gs = "PLAYING" /\ C18_Signalled =>
           /\ player' = player /\ boss' = boss
           /\ stamina' = stamina /\ score' = score]_vars

C18_Transitions ==
    { << "MENU", "LOADING" >>, << "LOADING", "PLAYING" >>, << "PLAYING", "GAME_OVER" >>,
      << "PLAYING", "VICTORY" >>, << "GAME_OVER", "LOADING" >>, << "VICTORY", "LOADING" >> }

C19_Failed == {"no key", "call threw", "empty response", "invalid JSON"}

C19_Completes ==
    lorePending /\ ~lorePending' /\ loreCall' \in C19_Failed =>
        /\ gameState = "LOADING" /\ gameState' = "PLAYING"
        /\ levelData' \in {FallbackNoKey, FallbackError}
        /\ DOMAIN levelData' = LoreFields

\* C19: when the narrative collaborator is unavailable or fails (no API key,
\* the call throws, the response is empty, the response is not valid JSON)
\* generateLevelLore resolves with a complete fallback record and the start
\* flow goes on from LOADING to PLAYING.
C19_FallbackOnFailure == [][C19_Completes]_vars

\* the response was not JSON; the error fallback is the level data and the
\* run has begun
C19_BadJsonFellBack ==
    /\ loreCall = "invalid JSON" /\ levelData = FallbackError
    /\ mounted = "PLAYING" /\ ticks > 0

C20_InRange == 0 <= stamina /\ stamina <= 200

\* what the tick's dodge or heavy attack leaves of the stamina
C20_AfterCost ==
    IF ev'.trans = "dodge" THEN Max(0, stamina - 2 * DODGE_STAMINA_COST)
    ELSE IF ev'.trans = "heavy" THEN 0
    ELSE stamina

C20_Requests ==
    IsTick =>
        stamina' = IF ev'.playerRan /\ ~ev'.earlyReturn /\ player'.dodgeCooldown < 30
                   THEN Min(200, C20_AfterCost + 1)
                   ELSE C20_AfterCost

\* C20: stamina stays within [0, 100] (0..200 half points): a tick that
\* starts a dodge takes 20 off, floored at 0, a heavy attack sets it to 0,
\* and a tick on which the player's logic runs to its end with
\* dodgeCooldown < 30 adds 0.5, capped at 100.
C20_StaminaInRange == []C20_InRange /\ [][C20_Requests]_vars

\* a dodge began with less than its cost left, right after a heavy attack
C20_DodgeWhenSpent == ev.trans = "dodge" /\ stamina = 0 /\ hist.kind = "heavy"

\* the player as the boss's attack finds it: after the player's part of the
\* update() call that is due
C21_PlayerAtBossStep == PlayerStep(World, keys).p

\* C21: on a tick on which the player's state is dodge when the boss's
\* attack resolves, the player's health does not decrease and the player is
\* not put into state hit.
C21_DodgeInvulnerable ==
    [][IsTick /\ C21_PlayerAtBossStep.state = "dodge" =>
           /\ player'.health >= player.health
           /\ player'.state # "hit"
           /\ ~ev'.bossHit]_vars

\* the slam came down with the dodging player inside its shockwave
C21_DodgedSlam ==
    /\ ev.slam = "impact" /\ InShockwave(player, boss) /\ player.state = "dodge"
    /\ ~ev.bossHit /\ player.health = scenario.p.health

\* the dodge key was up when update() last read it and is down now
C22_DodgeEdge == DodgePressed(keys) /\ ~DodgePressed(hist.held)

C22_StartsOnEdge ==
    IsTick /\ ev'.trans = "dodge" =>
        /\ C22_DodgeEdge
        /\ player.dodgeCooldown <= 1
        /\ player.state \notin {"dodge", "hit"}

\* C22: a dodge starts only on a tick at which the dodge key has gone from
\* released to pressed, dodgeCooldown has elapsed and the player is in
\* neither dodge nor hit; and a key that is held down starts at most one
\* dodge.
C22_DodgeOnEdgeOnly == [](hist.dodges <= 1) /\ [][C22_StartsOnEdge]_vars

\* a second dodge has begun under a dodge key that was never read as up
C22_SecondDodgeWhileHeld == ev.trans = "dodge" /\ hist.dodges = 2

\* the spell key was up when update() last read it and is down now
C23_SpellEdge == "KeyK" \in keys /\ "KeyK" \notin hist.held

C23_FacingInRange ==
    /\ (player.facingRight /\ boss.x > player.x) \/ (~player.facingRight /\ boss.x < player.x)
    /\ Abs(boss.x - player.x) < 600 * U

\* C23: immobilize is cast only on a tick at which the spell key has gone
\* from released to pressed, spellCooldown has elapsed, the boss is alive,
\* the player faces it and it is less than 600 away; so a key that is held
\* down casts once and does not reset the timer and the accumulator of a
\* boss that is already immobilized.
C23_CastOnEdgeOnly ==
    /\ [](hist.casts <= 1)
    /\ [][IsTick /\ ev'.cast =>
              /\ C23_SpellEdge
              /\ player.spellCooldown <= 1
              /\ ~boss.isDead
              /\ C23_FacingInRange]_vars

\* the held spell key has cast again on a boss that was still immobilized:
\* its timer is back at 300 and its accumulator at 0
C23_RecastWhileHeld ==
    /\ ev.cast /\ hist.casts = 2
    /\ ev.castBoss.isImmobilized /\ ev.castBoss.immobilizeTimer = 300
    /\ boss.immobilizeTimer = 299

C24_PlayerReset(p) ==
    /\ p.x = 100 * U /\ p.y = 200 * U /\ p.vx = 0 /\ p.vy = 0
    /\ p.health = H(100) /\ ~p.isDead /\ p.state = "idle" /\ p.hitStop = 0
    /\ p.attackCooldown = 0 /\ p.dodgeCooldown = 0 /\ p.spellCooldown = 0
    /\ p.chargeTimer = 0 /\ p.comboCount = 0 /\ p.comboWindow = 0
    /\ ~p.hasDealtDamage /\ ~p.hasHitInAir

C24_BossReset(b) ==
    /\ b.x = 600 * U /\ b.y = 200 * U /\ b.vx = 0 /\ b.vy = 0
    /\ b.health = H(1200) /\ ~b.isDead /\ b.state = "idle" /\ b.hitStop = 0
    /\ b.attackCooldown = 60
    /\ ~b.isImmobilized /\ b.immobilizeTimer = 0 /\ b.immobilizeDamageTaken = 0

C24_ResetBeforeFirstTick ==
    /\ gameState # "PLAYING" /\ gameState' = "PLAYING" => mounted # "PLAYING"
    /\ IsTick => mounted = "PLAYING" /\ mounted' = "PLAYING"
    /\ InitGameStep => C24_PlayerReset(player') /\ C24_BossReset(boss') /\ ~IsTick
    /\ ~IsTick /\ ~InitGameStep => player' = player /\ boss' = boss

\* C24: whenever the game state enters PLAYING the loop that ticks is not
\* running; it starts on the step that runs initGame, which leaves the
\* player at (100, 200) with health 100 and the boss at (600, 200) with
\* health 1200, both alive, idle, at rest, with hitStop 0 and their cooldown,
\* combo and immobilize fields at their initial values; and nothing but a
\* tick changes an entity afterwards.
C24_RunStartsReset == [][C24_ResetBeforeFirstTick]_vars

\* a run that was picked up in mid-fight has ended with the boss's death and
\* the next run is about to make its first tick
C24_FreshAfterVictory ==
    /\ scenario.name = "wrap" /\ ticks > 0 /\ mounted = "PLAYING" /\ ~BetweenFrames
    /\ C24_PlayerReset(player) /\ C24_BossReset(boss) /\ ev = NoEv

\* the boss is alive, free and out of hitstop, and the player's part of the
\* tick neither hits it nor casts on it: its AI and physics are due
C25_BossDue == ~boss.isDead /\ ~boss.isImmobilized /\ boss.hitStop <= 1 /\ ~ev'.hit /\ ~ev'.cast

\* C25: every tick runs all its phases: whatever the input, a tick on which
\* the player's logic runs goes on to the boss step (the boss's AI, physics
\* and cooldown when they are due), the death check and the collision
\* resolution; an air light-attack press that is ignored because the player
\* is too close to the ground does not end the tick.
C25_EveryTickRunsAllPhases ==
    [][IsTick /\ ev'.playerRan =>
           /\ ~ev'.earlyReturn
           /\ C25_BossDue => ev'.bossRan /\ boss'.attackCooldown = Dec(boss.attackCooldown)]_vars

\* the press was ignored and the tick ended there: the player hangs in the
\* air where it was and the boss has not moved or counted down
C25_TickCutShort ==
    /\ ev.earlyReturn /\ ~ev.bossRan /\ ~OnGround(player) /\ player.vy < 0
    /\ boss.attackCooldown > 0 /\ boss.hitStop = 0

\* the outcomes of the update() call that is due, one for each value
\* Math.random() may return
C26_Outcomes == Update(World, keys)

\* the boss's AI is about to run with the boss in state run, its attack
\* cooldown elapsed and the player inside the band (100, 250)
C26_RunningInBand ==
    LET distance == Abs(PlayerStep(World, keys).p.x - boss.x)
    IN  /\ mounted = "PLAYING" /\ ~BetweenFrames
        /\ boss.state = "run" /\ boss.attackCooldown <= 0
        /\ distance > 100 * U /\ distance < 250 * U
        /\ \A w \in C26_Outcomes : w.ev.bossRan

\* C26: the leaping slam is reachable: when the boss's AI runs with the boss
\* in state run, its attack cooldown elapsed and the player inside the band
\* (100, 250), the tick has an outcome (a value of Math.random()) in which
\* the boss begins the leaping slam, which on that same tick becomes the
\* landing attack state.
C26_LeapingSlamReachable ==
    C26_RunningInBand => \E w \in C26_Outcomes : w.b.state \in {"jump_smash", "attack"}

\* what holds instead: the boss is never in the leaping slam or its landing
C26_NeverLeaps == boss.state \notin {"jump_smash", "attack"}

\* C27: the air spin is multi-hit: in an air_attack activation that has
\* already hit, a tick on which the boss is inside the attack's radius and
\* the per-hit cooldown (attackCooldown, 18 after a hit) has run out
\* registers another hit.
C27_AirSpinHitsAgain ==
    hist.kind = "air" /\ hist.hits >= 1 /\ ev.geo /\ player.attackCooldown = 0 => ev.hit

\* what holds instead: an air_attack activation registers one hit at most
C27_AirSpinHitsOnce == hist.kind = "air" => hist.hits <= 1

C28_Busy == {"attack", "jump_smash", "hit", "kowtow_attack"}

C28_OneImpact == hist.impacts <= 1

C28_Activation ==
    IsTick =>
        /\ boss.state # "kowtow_attack" /\ boss'.state = "kowtow_attack" => ev'.slam = "start"
        /\ ev'.slam = "start" =>
              /\ boss.state \notin C28_Busy /\ boss.attackCooldown <= 0
              /\ boss'.state = "kowtow_attack"
        /\ ev'.slam = "impact" =>
              boss.state = "kowtow_attack" /\ boss.animFrame = 4 /\ boss.animTimer = 0
        /\ player'.health < player.health =>
              /\ ev'.slam = "impact"
              /\ player'.health = player.health - BOSS_KOWTOW_DAMAGE
        /\ ev'.slam = "end" =>
              /\ boss.state = "kowtow_attack" /\ boss'.state = "idle"
              /\ boss'.attackCooldown = Dec(60)

\* C28: a kowtow_attack activation resolves its hit check at most once, on
\* the tick that finds the boss at frame 4 with animTimer 0, and the player
\* loses health on no other tick, 25 at a time; the activation that runs out
\* leaves the boss idle with attackCooldown set to 60 (which the cooldown
\* step of that same tick has already counted down once); it starts only
\* from a state that is not attack, jump_smash, hit or kowtow_attack, with
\* attackCooldown elapsed.
C28_SlamResolvesOnce == []C28_OneImpact /\ [][C28_Activation]_vars

\* the slam that hit the player has run out: the boss is idle again and its
\* cooldown is counting down from 60
C28_SlamRanOut ==
    /\ ev.slam = "end" /\ hist.impacts = 1
    /\ player.health = scenario.p.health - BOSS_KOWTOW_DAMAGE
    /\ boss.state = "idle" /\ boss.attackCooldown = 59

C29_CountsDown ==
    IsTick /\ ~boss.isDead /\ boss.isImmobilized /\ ~ev'.cast /\ ~ev'.broke =>
        IF boss.immobilizeTimer > 0
        THEN boss'.isImmobilized /\ boss'.immobilizeTimer = boss.immobilizeTimer - 1
        ELSE ~boss'.isImmobilized

\* C29: while the boss is immobilized its immobilizeTimer goes down by 1 on
\* every tick, and the tick that finds the timer at zero ends the spell,
\* unless a hit breaks the spell first (or the spell is cast anew).
C29_TimerCountsDown == [][C29_CountsDown]_vars

\* a tick has passed over the immobilized boss and left its timer where it was
C29_TimerStoodStill ==
    /\ ev.earlyReturn /\ boss.isImmobilized /\ boss.immobilizeTimer > 0
    /\ ~ev.cast /\ ~ev.hit /\ ~boss.isDead

\* the worlds the collision step of the pending update() call may be handed
\* (after the player step, the boss step and the death check), each with what
\* the step makes of it; none when the call returns before that step
C30_Resolutions ==
    UNION { IF w1.ev.earlyReturn THEN {}
            ELSE {[pre |-> d, post |-> Collision(d)] : d \in {DeathCheck(w2) : w2 \in BossStep(w1)}}
            : w1 \in {PlayerStep(World, keys)} }

\* the step is skipped during the freeze of a hit, except that a held boss
\* counts as a wall whatever its hitStop
C30_Frozen(p, b) == p.hitStop > 0 \/ (b.hitStop > 0 /\ ~b.isImmobilized)

C30_Acts(p, b) ==
    /\ ~p.isDead /\ ~b.isDead /\ p.state # "dodge" /\ b.state # "dodge"
    /\ ~C30_Frozen(p, b)
    /\ Overlaps(p, b)

C30_Effect(pre, post) ==
    LET p == pre.p
        b == pre.b
        away == IF p.x + PLAYER_W \div 2 < b.x + BOSS_W \div 2 THEN -(2 * U) ELSE 2 * U
    IN  /\ post.b.x = b.x /\ post.b.y = b.y
        /\ IF C30_Acts(p, b)
           THEN /\ post.ev.collided
                /\ post.p.x = p.x + away
                /\ post.p.vx = IF p.vx * away < 0 THEN 0 ELSE p.vx
                /\ post.p = [p EXCEPT !.x = post.p.x, !.vx = post.p.vx]
                /\ post.b.vx = IF b.isImmobilized \/ b.state = "kowtow_attack" THEN b.vx ELSE 0
                /\ post.b = [b EXCEPT !.vx = post.b.vx]
           ELSE post = pre

\* the player set at the same distance on the other side of the boss's
\* centre, moving the other way
C30_Mirrored(w) ==
    [w EXCEPT !.p.x = 2 * w.b.x + BOSS_W - PLAYER_W - @, !.p.vx = -@]

\* the boss given a motion of its own
C30_Sliding(w) == [w EXCEPT !.b.vx = 3 * U]

\* a world the step is handed, and the same contact seen from the other side
\* and with the boss in motion
C30_Contacts(w) ==
    {w, C30_Mirrored(w), C30_Sliding(w), C30_Sliding(C30_Mirrored(w))}

C30_Step ==
    IsTick =>
        \A R \in {C30_Resolutions} :
            /\ \A r \in R : \A w \in C30_Contacts(r.pre) : C30_Effect(w, Collision(w))
            /\ ~ev'.earlyReturn =>
                  \E r \in R : /\ player' = r.post.p /\ boss' = r.post.b
                                /\ ev'.collided = r.post.ev.collided

C31_Contact ==
    /\ ~boss.isDead /\ ~player.isDead
    /\ player.state # "dodge" /\ boss.state # "dodge"
    /\ Overlaps(player, boss)

\* outside the hold of the spell the step acts only when neither entity is
\* in hitstop
C31_SkippedInHitstop ==
    [][IsTick /\ ev'.collided
          => player'.hitStop = 0 /\ (boss'.hitStop = 0 \/ boss'.isImmobilized)]_vars

\* a tick that ran its collision step has left the player inside the held
\* boss only if the step has just pushed it
C31_WallStep ==
    IsTick /\ ~ev'.earlyReturn /\ boss'.isImmobilized /\ C31_Contact' => ev'.collided

\* C31: an immobilized boss is a wall whatever the hitstop: on every tick
\* that finds a living, non-dodging player overlapping the immobilized boss,
\* collision resolution pushes the player, also while the player or the boss
\* has hitStop > 0.
C31_HeldBossIsWall == [][C31_WallStep]_vars

\* the same with the player out of hitstop: the boss's own hitStop does not
\* keep the held boss from pushing
C31_HeldBossIsWallToUnfrozen ==
    [][player'.hitStop = 0 => C31_WallStep]_vars

\* the player's hit on the held boss has frozen the player inside the boss's
\* box, and the tick's collision step has left it there
C31_FrozenInsideHeldBoss ==
    /\ ev.hit /\ ~ev.collided /\ ~ev.earlyReturn
    /\ boss.isImmobilized /\ player.hitStop > 0 /\ C31_Contact

\* the tick's decay finds the combo window run out and the player outside
\* the attack state
C32_Expired == Dec(player.comboWindow) = 0 /\ player.state # "attack"

C32_WindowStep ==
    IsTick /\ ev'.playerRan =>
        /\ C32_Expired /\ ev'.trans \notin {"light", "cancel4"} => player'.comboCount = 0
        /\ ev'.trans = "light" =>
              player'.comboCount = IF C32_Expired THEN 1 ELSE NextCombo(player.comboCount)
        /\ player'.comboWindow \in {Dec(player.comboWindow), COMBO_WINDOW_FRAMES}
        /\ player'.comboWindow = COMBO_WINDOW_FRAMES =>
              player'.state = "idle" /\ ev'.trans \notin AttackTransitions

\* C32: on every tick on which the player's logic runs, the combo window
\* counts down by 1 unless an attack has just ended and opened it at 50;
\* when the countdown finds it at 0 with the player not in the attack state,
\* comboCount is reset to 0 before the input is read, so that the tick ends
\* with comboCount 0, or 1 if a grounded light attack started on it (4 for
\* the air cancel into the finisher); a grounded light attack started while
\* the window is open takes the step after the last one.
C32_ChainExpiresWithWindow == [][C32_WindowStep]_vars

\* steps 1 and 2 were done, the window ran out, and the light attack started
\* after that is step 1 again
C32_LateAttackRestartsChain ==
    /\ scenario.name = "lapse" /\ ev.trans = "light"
    /\ ev.kind = "c1" /\ player.comboCount = 1 /\ player.comboWindow = 0

\* the count the light attack of this tick starts from: what the decay of
\* the same tick has left of it
C33_Old == IF C32_Expired THEN 0 ELSE player.comboCount

C33_LightStep ==
    IsTick =>
        /\ ev'.trans = "light" =>
              /\ OnGround(player)
              /\ player'.state = "attack"
              /\ player'.comboCount = (C33_Old % 4) + 1
              /\ player'.comboCount = 3 =>
                    player'.vy = -550 + GRAVITY \div 4 /\ ~OnGround(player')
              /\ player'.comboCount = 4 =>
                    player'.vy = -500 + GRAVITY /\ ~OnGround(player')
              /\ player'.comboCount \in {1, 2} =>
                    player'.vy = player.vy /\ OnGround(player')
        /\ ev'.trans = "auto4" =>
              /\ player.state = "attack" /\ player.comboCount = 3
              /\ player'.state = "attack" /\ player'.comboCount = 4
              /\ player'.vy = -500

\* C33: a light attack started on the ground sets comboCount to
\* (old mod 4) + 1, old being the count the tick's decay has left (0 -> 1,
\* 1 -> 2, 2 -> 3, 3 -> 4, 4 -> 1); step 3 starts with an upward velocity of
\* 5.5 and step 4 with one of 5, started by the key or by the automatic
\* passage from step 3, and either leaves the ground on that tick, while
\* steps 1 and 2 leave the vertical velocity as it was and the player on the
\* ground.
C33_ComboAdvancesCyclically == [][C33_LightStep]_vars

\* step 3 has just been started on the ground after step 2, and the player
\* is rising
C33_SpinLiftsOff ==
    /\ ev.trans = "light" /\ ev.kind = "c3" /\ player.comboCount = 3
    /\ player.vy < 0 /\ ~OnGround(player)

\* the finisher has just been started by the key, on the ground, from a
\* count of 3, and the player is rising
C33_KeyedFinisherLiftsOff ==
    /\ ev.trans = "light" /\ ev.kind = "c4" /\ player.comboCount = 4
    /\ player.vy < 0 /\ ~OnGround(player)

\* the player as the combat resolution of the pending update() call finds
\* it: after the decay, the spell, the input and the physics of that call
C34_AtResolution ==
    LET onGround == OnGround(player)
        w1 == SpellLogic([World EXCEPT !.p = DecayCooldowns(@)], keys)
        w2 == InputLogic(w1, keys, onGround)
    IN  Physics(Movement(w2.p, keys), keys, onGround, MovementLocked(w2.p))

C34_InWindow(p) ==
    \/ p.state = "heavy_attack" /\ p.animFrame \in 2..6
    \/ p.state = "attack" /\ p.comboCount \in {1, 2} /\ p.animFrame \in 1..2
    \/ p.state = "attack" /\ p.comboCount = 3 /\ p.animFrame \in 0..c3TotalFrames
    \/ p.state = "attack" /\ p.comboCount = 4 /\ p.animFrame \in 5..10
    \/ p.state = "air_attack"

C34_DamageStep ==
    IsTick /\ boss'.health < boss.health =>
        /\ ev'.hit /\ ~boss.isDead
        /\ player.hitStop = 0 /\ ~player.isDead
        /\ C34_InWindow(C34_AtResolution)

\* C34: the boss's health goes down on a tick only if the boss is alive and
\* the combat resolution of that tick finds the player in attack,
\* heavy_attack or air_attack with animFrame inside the active window of the
\* variant: frames 1-2 for steps 1 and 2, frames 0..c3TotalFrames for step 3,
\* frames 5-10 for the finisher, frames 2-6 for the heavy attack, every frame
\* of air_attack.
C34_DamageOnlyInActiveWindow == [][C34_DamageStep]_vars

\* step 1 is past its active frames with its box still over the boss, and
\* the boss has lost no health to it
C34_OverlapAfterWindow ==
    /\ ev.playerRan /\ ~ev.hit
    /\ player.state = "attack" /\ player.comboCount = 1 /\ player.animFrame = 0
    /\ player.animTimer >= 2 /\ BoxHit(player, boss)
    /\ boss.health = scenario.b.health

\* the number of ticks of its own logic that a player may end in each action
\* state without a new transition or blow
C35_Limit(p) ==
    CASE p.state = "dodge" -> 16
      [] p.state = "hit" -> 45
      [] p.state = "heavy_attack" -> 24
      [] p.state = "air_attack" -> 57
      [] p.state = "attack" /\ p.comboCount = 3 -> 2 * c3TotalFrames + 1
      [] p.state = "attack" /\ p.comboCount = 4 -> 40
      [] OTHER -> 7

C35_Bounded ==
    player.state \in ActionStates /\ ~player.isDead => hist.busy <= C35_Limit(player)

C35_Exit ==
    IsTick /\ player.state \in ActionStates /\ player'.state # player.state
           /\ ev'.trans = "none" /\ ~ev'.bossHit
        => player'.state \in {"idle", "run", "jump", "fall"}

C35_Passage ==
    IsTick /\ ev'.trans = "auto4" =>
        /\ player.state = "attack" /\ player.comboCount = 3
        /\ player'.state = "attack" /\ player'.comboCount = 4
        /\ hist'.busy = 1

\* C35: a living player is never left in an action state for more than a
\* fixed number of ticks of its own logic after the last transition or blow:
\* 7 for steps 1 and 2, 2 * c3TotalFrames + 1 for step 3, 40 for the
\* finisher, 24 for heavy_attack, 57 for air_attack, 16 for dodge, 45 for
\* hit; left to itself every action state gives way to idle, run, jump or
\* fall, step 3 by way of the finisher.
C35_ActionsSelfTerminate == []C35_Bounded /\ [][C35_Exit /\ C35_Passage]_vars

\* the finisher has run its 40 ticks and left the player idle with the
\* combo window open
C35_FinisherRanOut ==
    /\ ev.playerRan /\ ev.trans = "none" /\ player.state = "idle"
    /\ hist.kind = "c4" /\ player.comboCount = 4
    /\ player.comboWindow = COMBO_WINDOW_FRAMES

\* the damage of one hit of the spin
C36_PerHit == H(c3TotalDamage) \div (1 + c3ExtraHits)

\* C36: one activation of combo step 3 registers at most 1 + c3ExtraHits
\* hits, each of c3TotalDamage / (1 + c3ExtraHits), so that a spin deals
\* c3TotalDamage at most.
C36_SpinDealsTotalAtMost ==
    hist.kind = "c3" =>
        /\ hist.hits <= 1 + c3ExtraHits
        /\ hist.hits * C36_PerHit <= H(c3TotalDamage)

\* what the spin does keep to: one hit for each value of the segment index,
\* 0 to 1 + c3ExtraHits, each of the same damage
C36_SpinHitsOncePerIndex ==
    /\ hist.kind = "c3" => hist.hits <= 2 + c3ExtraHits
    /\ hist.kind = "c3" /\ ev.hit => ev.dmg = C36_PerHit /\ ev.seg \in 0..(1 + c3ExtraHits)

\* the spin has registered its twelfth hit
C36_TwelfthSpinHit ==
    /\ hist.kind = "c3" /\ ev.hit /\ hist.hits = 2 + c3ExtraHits
    /\ ev.seg = 1 + c3ExtraHits

C37_PlayerInside ==
    /\ 0 <= player.x /\ player.x <= ARENA_W
    /\ player.y + PLAYER_H <= GROUND_Y

C37_BossInside ==
    /\ 0 <= boss.x /\ boss.x <= ARENA_W - BOSS_W
    /\ boss.y + BOSS_H <= GROUND_Y

\* C37: after every tick the player's x is within [0, 1200], the boss's x
\* within [0, 1200 - boss.width], and the feet of neither are below the
\* ground, the push of the collision resolution included.
C37_BothInsideArena == C37_PlayerInside /\ C37_BossInside

\* what the clamps do keep: the boss inside, nobody below the ground, and
\* the player no further out than the one push of 2 units that follows its
\* own clamp
C37_InsideButForThePush ==
    /\ C37_BossInside
    /\ player.y + PLAYER_H <= GROUND_Y
    /\ -(2 * U) <= player.x /\ player.x <= ARENA_W + 2 * U
    /\ ~C37_PlayerInside => ev.collided

\* the player walked from the wall into the cornered boss and the push has
\* put it beyond the wall
C37_PushedThroughWall ==
    /\ ev.collided /\ player.x > ARENA_W
    /\ boss.x + BOSS_W = ARENA_W

C38_OneDead == ~(player.isDead /\ boss.isDead)

C38_OneSignal ==
    IsTick =>
        /\ ~(ev'.victory /\ ev'.gameOver)
        /\ ev'.victory => gameState # "GAME_OVER" /\ ~player'.isDead
        /\ ev'.gameOver => gameState # "VICTORY" /\ ~boss'.isDead

\* C38: player.isDead and boss.isDead are never both true, and within a run
\* setGameState(VICTORY) is never called on or after a tick that called
\* setGameState(GAME_OVER), nor the other way round.
C38_SingleOutcome == []C38_OneDead /\ [][C38_OneSignal]_vars

\* the killing hit landed on the tick on which the slam was due to resolve
\* on a player it would have killed: the boss died at its impact frame and
\* the player lives
C38_KilledAtImpactFrame ==
    /\ ev.victory /\ ev.hit /\ boss.isDead
    /\ boss.state = "kowtow_attack" /\ ImpactFrame(boss)
    /\ ~player.isDead /\ player.health <= BOSS_KOWTOW_DAMAGE

\* the boss as its step of the pending update() call finds it is dead,
\* immobilized, or still in hitstop once the step has counted it down
C39_Frozen(b) == b.isDead \/ b.isImmobilized \/ Dec(b.hitStop) > 0

C39_BossStepOn(w1) ==
    C39_Frozen(w1.b) =>
        /\ \A w2 \in BossStep(w1) : w2.p = w1.p /\ ~w2.ev.bossHit /\ ~w2.ev.gameOver
        /\ player'.health = w1.p.health
        /\ player'.state = w1.p.state
        /\ player'.vy = w1.p.vy
        /\ player'.isDead = w1.p.isDead
        /\ ~ev'.bossHit /\ ~ev'.gameOver

\* C39: on a tick whose boss step finds the boss dead, immobilized, or with
\* hitStop still above 0 after its decrement, that step leaves the player
\* as the player's own step left it: health, velocity and state unchanged,
\* no blow, no GAME_OVER; the tick ends with that health, state and vertical
\* velocity (the horizontal one is left to the collision step).
C39_FrozenBossHarmless ==
    [][IsTick /\ ~ev'.earlyReturn
          => \A w1 \in {PlayerStep(World, keys)} : C39_BossStepOn(w1)]_vars

\* the player's hit has frozen the living boss on the tick its slam was due
\* to resolve, the player standing in the shockwave: no blow was dealt
C39_SlamHeldByHitstop ==
    /\ ev.hit /\ ~ev.bossHit /\ ~boss.isDead /\ ~boss.isImmobilized
    /\ boss.hitStop > 0 /\ boss.state = "kowtow_attack" /\ ImpactFrame(boss)
    /\ InShockwave(player, boss) /\ player.state # "dodge"
    /\ player.health = scenario.p.health

====
